---- MODULE Spec2Model ----
(***************************************************************************)
(* Verification model of hn-client's server core: the Poller's poll cycle  *)
(* with the transactional rank swap (server/worker/poller.go, store        *)
(* SwapRanks, stories.sql), the shared TopList, the Cleaner sweep, and the *)
(* SSE event Broker (package sse).                                         *)
(*                                                                         *)
(* The specifications share the variables; each moves its own part:        *)
(*   SpecPoll     - Poller, store, TopList, Cleaner, on-demand fetches     *)
(*   SpecBroker   - Broker with concurrent publishers and SSE connections  *)
(*   SpecFlight   - the Fetcher's singleflight-guarded methods             *)
(*   SpecClient   - hn.Client's permit pool; FairClient adds scheduling    *)
(*   SpecTree     - GetCommentTree over the stored comment rows            *)
(*   SpecItem     - Fetcher.FetchStory and the stories row it upserts      *)
(*   SpecComments - Fetcher.FetchComments and the upstream requests made   *)
(*   SpecRank     - Ranker.ComputeAll and the rankings rows readers see     *)
(*   SpecScore    - the score computePeriod gives a story                   *)
(*   SpecPage     - TopList.Set and TopList.Page under the RWMutex          *)
(*   SpecRefresh  - RefreshHandler.Refresh and its rate limit               *)
(*   SpecArticle  - FetchStoryWithComments, ExtractArticle, GetArticle and  *)
(*                  DeleteStory over the tables with foreign keys           *)
(*   SpecLoop     - the Start loops of Poller and Cleaner: ticks, cycles,   *)
(*                  failures and cancellation; FairLoop adds scheduling     *)
(***************************************************************************)
EXTENDS Integers, Sequences, FiniteSets, TLC

\* ------------------------------------------------------------------ bounds
\* Story IDs the upstream API can name.
MaxID == 3
\* Stand-in for eagerCount := 60 (poller.go:77): the prefix fetched with comments.
EagerCount == 1
\* Stand-in for the safety floor 10 of poller.go:112.
MinRankPairs == 2
\* Stand-in for NewBroker(1000) (main.go:99): ring buffer capacity.
RingSize == 3
\* Stand-in for make(chan *Event, 64) (sse broker subscribe): channel depth.
SubDepth == 2
\* Number of events the publishers publish in a run.
MaxEvents == 4
\* Number of events the Poller publishes in a run (poll cycles that report).
MaxPolls == 2
\* Item IDs the singleflight callers ask for.
MaxSfID == 2
\* Stand-in for the permit pool of 10 (hn client NewClient: make(chan struct{}, 10)).
PoolSize == 2
\* Comment IDs of the one story whose comment tree is read.
MaxComment == 4
\* Story IDs fetched by FetchStory.
MaxItem == 2
\* Seconds of the clock (time.Now().Unix()).
MaxNow == 3
\* GetItems calls of one comment walk (the batches of its levels).
MaxWalkCalls == 2
\* Times a comment ID is requested from upstream in a run.
MaxWalks == 2
\* Stand-in for the page size 30 of the stories handler: largest page size read.
MaxPageSize == 2
\* Story IDs the Ranker finds in table stories.
MaxRankID == 2
\* Largest stories.score and largest age in seconds of a scored story.
MaxRawScore == 3
MaxAge == 4
\* Story IDs whose article is extracted.
MaxArtID == 1
\* Story IDs refreshes are requested for, and ticks of the handler's clock.
MaxRefreshID == 2
MaxClock == 5
\* Stand-ins, in clock ticks, for rateLimitWindow = 30 s and rateLimitSweepAge
\* = 60 s, and for rateLimitCapacity = 10000 entries (refresh.go:20-22).
RateLimitWindow == 2
RateLimitSweepAge == 4
RateLimitCapacity == 1
\* Cycles a background loop starts in a run.
MaxCycles == 2
\* Longest top list of a cycle and longest candidate list of a sweep in SpecLoop.
MaxLoopItems == 2

\* ------------------------------------------------------------- vocabulary
StoryIDs == 1..MaxID
\* SSE connections of a run; each owns the channel its subscribe() call makes.
Conns == {"c1", "c2"}
Publishers == {"poller", "refresh"}

\* rank INTEGER (nullable): NULL is modelled as 0, real ranks are i+1 >= 1.
NoRank == 0

Range(s) == {s[j] : j \in 1..Len(s)}

RECURSIVE IdsAsc(_)
IdsAsc(S) ==
  IF S = {} THEN <<>>
  ELSE LET m == CHOOSE x \in S : \A y \in S : x <= y
       IN <<m>> \o IdsAsc(S \ {m})

\* Responses of GET /topstories.json used as inputs: duplicate-free ID lists.
Asc == [j \in 1..MaxID |-> j]
Desc == [j \in 1..MaxID |-> MaxID + 1 - j]
UpstreamLists == {Asc, Desc, <<MaxID>>}

\* Page sizes and page numbers an API handler reads the TopList with; the
\* last pages lie past the end of every list.
PageSizes == 1..MaxPageSize
Pages == 1..(MaxID + 2)

\* Goroutines that call the Fetcher's *Singleflight methods (API handlers).
SfCallers == {"h1", "h2", "h3"}
\* FetchStorySingleflight, FetchStoryWithCommentsSingleflight,
\* FetchCommentsSingleflight, named by their key prefixes.
SfKinds == {"story", "story-comments", "comments"}
SfIDs == 1..MaxSfID
\* sfKey of a caller that is not inside Group.Do.
NoKey == <<"", "", 0>>

\* Goroutines that call hn.Client: more than there are permits.
Requesters == 1..(PoolSize + 2)

CommentIDs == 1..MaxComment
\* comments.parent_id NULL (a top-level comment) is modelled as 0.
NoParent == 0
\* A comment ID without a row in table comments.
NoComment == [present |-> FALSE, parent |-> NoParent, deleted |-> FALSE]
\* No GetCommentTree result at hand.
EmptyTree == [read |-> FALSE, roots |-> <<>>, children |-> [c \in CommentIDs |-> <<>>]]

ItemIDs == 1..MaxItem
\* Contents of an upstream story record (title, score, ... as one value).
ItemData == {"v1", "v2"}
\* GetItem's result for a record upstream does not have: JSON null, ID 0.
NullItem == "null"
\* A story ID without a row in table stories.
NoRow == [present |-> FALSE, data |-> "", fetched_at |-> 0, rank |-> NoRank]
\* No FetchStory call in progress.
NoFetch == [pc |-> "idle", id |-> 0, item |-> ""]
\* No FetchComments call in progress.
NoWalk == [pc |-> "idle", kids |-> <<>>, avail |-> {}]

\* Stories the Ranker can list.
RankIDs == 1..MaxRankID
\* stories.time of an ID without a row.
NoTime == -1
\* The periods in the order ComputeAll computes them (ranker.go:28-34).
Periods == <<"day", "yesterday", "week">>
\* Stand-ins, in clock ticks, for 24 hours and 7 days (ranker.go:27-33).
DayLen == 1
WeekLen == 3
\* No ComputeAll call in progress.
NoCompute == [pc |-> "idle", now |-> 0, idx |-> 0, list |-> <<>>, tx |-> {},
              k |-> 1, result |-> "none"]

\* Stand-in for the 3600 seconds of an hour (ranker.go:64).
HourSecs == 2
\* Two stories whose scores are compared.
Slots == {"a", "b"}
\* No score computed for a slot yet.
NoScore == [done |-> FALSE, rawScore |-> 0, age |-> 0, useRawScore |-> FALSE,
            score |-> [num |-> 0, cube |-> 1]]

\* Goroutines of API handlers that call TopList.Page.
Readers == {"r1", "r2"}
\* No Page call in progress.
NoPage == [pc |-> "idle", page |-> 0, pageSize |-> 0, held |-> <<>>,
           total |-> 0, ids |-> <<>>]

ArtIDs == 1..MaxArtID
\* Callers of FetchStoryWithComments (the Poller with the worker context, a
\* refresh with context.Background()) and the handler of GetArticle (with
\* the request's context).
Fetchers == {"poller", "refresh"}
ArtCallers == Fetchers \cup {"reader"}
\* The tables whose story_id column references stories(id), besides articles.
ChildTables == {"comments", "rankings"}
\* No call in progress.
NoArtCall == [pc |-> "idle", id |-> 0, url |-> FALSE, isNew |-> FALSE,
              ctxDone |-> FALSE, ext |-> "none"]

\* Stories a refresh is requested for and the goroutines serving the requests.
RefreshIDs == 1..MaxRefreshID
Handlers == {"q1", "q2"}
\* No Refresh call in progress.
NoRefresh == [pc |-> "idle", id |-> 0, now |-> 0, status |-> 0]

\* The background goroutines started by Poller.Start and Cleaner.Start.
Loops == {"poller", "cleaner"}

VARIABLES
  \* store (committed state of the SQLite database)
  stories,      \* ids of the rows of table stories
  rank,         \* stories.rank per id (NoRank for NULL and for absent rows)
  \* the SwapRanks transaction
  txState,      \* "none" | "begun" (BeginTx done) | "locked" (wrote, holds the write lock)
  txRank,       \* the transaction's uncommitted view of stories.rank
  k,            \* index of the next pair in SwapRanks' loop
  \* TopList
  topList,      \* TopList.ids
  \* Poller.poll
  pollPc, topIDs, i, rankPairs, updatedIDs,
  eventData,    \* story_ids of the event poll has marshalled for Publish
  swapped,      \* SwapRanks returned nil in the cycle that last set TopList
  cancelled,    \* ctx.Err() != nil of the shared worker context
  \* Cleaner.cleanup
  cleanPc, cleanIds,
  \* sse.Broker
  nextID, ring, subscribers,
  chans,        \* buffered content of each connection's channel
  closed,       \* channels on which close(ch) ran
  \* Broker.Publish calls in flight
  pubPc, pubEvt, pubSubs,
  \* Broker.ServeHTTP connections
  connPc, connReplay,
  \* Fetcher singleflight calls: per caller its position in Group.Do, the key
  \* it called with and the error it is about to return
  sfPc, sfKey, sfErr,
  \* hn.Client: per requesting goroutine its position in a request and the
  \* operation it performs
  clPc, clOp,
  \* the goroutines whose permit is in c.sem, the calls whose context is done,
  \* and the GetItems calls the comment walk in progress has made
  held, ctxDone, walkCalls,
  \* GetCommentTree: the rows read and the tree returned by the latest call
  treeRows, tree,
  \* stories rows in full, the clock, and a FetchStory call in progress
  storyRow, now, fs,
  \* stored comment IDs, how often each comment ID was requested from
  \* upstream, and a FetchComments call in progress
  comments, reqCount, cm,
  \* stories.time per ID, the committed rows of table rankings per period and
  \* the ComputeAll call in progress
  storyTime, rankings, rc,
  \* TopList.mu (the writer holding it, the readers holding it), the Set call
  \* in progress and the Page call of each reader
  mu, setCall, pageCall,
  \* the stories rows, the articles row of each story ("none" without one,
  \* else the outcome it caches), per child table the stories its rows
  \* reference, the calls in progress and the latest DeleteStory statement
  artStories, articles, childRows, artCall, lastDelete,
  \* RefreshHandler: the clock, h.mu (its holder), h.lastFetch, the Refresh
  \* call of each handler goroutine, and per story the times (now of
  \* refresh.go:57) of the requests that started doRefresh, in order
  clock, refreshMu, lastFetch, rq, started,
  \* per slot the story computePeriod scored last and its score
  scored,
  \* the Start goroutines: position, a tick waiting in the timer or ticker
  \* channel, cycles started, kinds of lines logged by the cycle at hand
  loopPc, tickReady, cycles, logged,
  \* locals of the cycle: len(topIDs), the loop index, len(updatedIDs), and
  \* the candidates the sweep has left
  pollN, pollI, pollOk, sweepLeft,
  \* per loop: the calls with an effect outside the goroutine that the cycle
  \* at hand has made (their number and the kind of the latest): TopList.Set,
  \* an item fetch, a committed SwapRanks, a completed ComputeAll, Publish,
  \* DeleteStory
  calls, lastCall

storeVars == <<stories, rank>>
txVars == <<txState, txRank, k>>
pollVars == <<pollPc, topIDs, i, rankPairs, updatedIDs, eventData, swapped>>
cleanVars == <<cleanPc, cleanIds>>
brokerVars == <<nextID, ring, subscribers, chans, closed>>
pubVars == <<pubPc, pubEvt, pubSubs>>
connVars == <<connPc, connReplay>>
flightVars == <<sfPc, sfKey, sfErr>>
clientVars == <<clPc, clOp, held, ctxDone, walkCalls>>
treeVars == <<treeRows, tree>>
itemVars == <<storyRow, now, fs>>
commentVars == <<comments, reqCount, cm>>
serverVars == <<storeVars, txVars, topList, pollVars, cancelled, cleanVars,
                brokerVars, pubVars, connVars>>
loopVars == <<loopPc, tickReady, cycles, logged, pollN, pollI, pollOk, sweepLeft,
             calls, lastCall>>
rankVars == <<storyTime, rankings, rc>>
scoreVars == <<scored>>
pageVars == <<mu, setCall, pageCall>>
refreshVars == <<clock, refreshMu, lastFetch, rq, started>>
articleVars == <<artStories, articles, childRows, artCall, lastDelete>>
moreVars == <<refreshVars, articleVars>>
lateVars == <<loopVars, rankVars, scoreVars, pageVars, moreVars>>
earlyVars == <<flightVars, clientVars, treeVars, itemVars, commentVars>>
auxVars == <<earlyVars, lateVars>>
vars == <<serverVars, auxVars>>

NoReplay == [has |-> FALSE, lastID |-> 0, events |-> <<>>, ok |-> TRUE]

Init ==
  /\ stories = {} /\ rank = [id \in StoryIDs |-> NoRank]
  /\ txState = "none" /\ txRank = [id \in StoryIDs |-> NoRank] /\ k = 1
  /\ topList = <<>>
  /\ pollPc = "idle" /\ topIDs = <<>> /\ i = 0 /\ rankPairs = <<>>
  /\ updatedIDs = <<>> /\ eventData = <<>> /\ swapped = FALSE
  /\ cancelled = FALSE
  /\ cleanPc = "idle" /\ cleanIds = <<>>
  /\ nextID = 1 /\ ring = <<>> /\ subscribers = {}
  /\ chans = [c \in Conns |-> <<>>] /\ closed = {}
  /\ pubPc = [p \in Publishers |-> "idle"]
  /\ pubEvt = [p \in Publishers |-> 0]
  /\ pubSubs = [p \in Publishers |-> {}]
  /\ connPc = [c \in Conns |-> "new"]
  /\ connReplay = [c \in Conns |-> NoReplay]
  /\ sfPc = [c \in SfCallers |-> "idle"]
  /\ sfKey = [c \in SfCallers |-> NoKey]
  /\ sfErr = [c \in SfCallers |-> "none"]
  /\ clPc = [g \in Requesters |-> "idle"]
  /\ clOp = [g \in Requesters |-> "none"]
  /\ held = {} /\ ctxDone = {} /\ walkCalls = 0
  /\ treeRows = [c \in CommentIDs |-> NoComment] /\ tree = EmptyTree
  /\ storyRow = [id \in ItemIDs |-> NoRow] /\ now = 1 /\ fs = NoFetch
  /\ comments = {} /\ reqCount = [c \in CommentIDs |-> 0] /\ cm = NoWalk
  /\ storyTime = [id \in RankIDs |-> NoTime]
  /\ rankings = [p \in Range(Periods) |-> {}]
  /\ rc = NoCompute
  /\ scored = [x \in Slots |-> NoScore]
  /\ artStories = {} /\ articles = [id \in ArtIDs |-> "none"]
  /\ childRows = [t \in ChildTables |-> {}]
  /\ artCall = [c \in ArtCallers |-> NoArtCall]
  /\ lastDelete = [id |-> 0, result |-> "none"]
  /\ clock = 0 /\ refreshMu = "free" /\ lastFetch = <<>>
  /\ rq = [h \in Handlers |-> NoRefresh]
  /\ started = [id \in RefreshIDs |-> <<>>]
  /\ mu = [writer |-> FALSE, readers |-> {}]
  /\ setCall = [pc |-> "idle", ids |-> <<>>]
  /\ pageCall = [r \in Readers |-> NoPage]
  /\ loopPc = [l \in Loops |-> IF l = "poller" THEN "start" ELSE "first"]
  /\ tickReady = [l \in Loops |-> FALSE] /\ cycles = [l \in Loops |-> 0]
  /\ logged = [l \in Loops |-> {}]
  /\ pollN = 0 /\ pollI = 0 /\ pollOk = 0 /\ sweepLeft = 0
  /\ calls = [l \in Loops |-> 0] /\ lastCall = [l \in Loops |-> "none"]

\* ------------------------------------------------------------------ store
\* Faulty variant of UpsertStory: rank = excluded.rank.
UpsertStory_RankFromParam(st, rk, id, newRank) == [rk EXCEPT ![id] = newRank]

\* UpsertStory (stories.sql:1-10): insert the row or update it in place;
\* rank = COALESCE(excluded.rank, stories.rank).  Returns the new rank column.
UpsertStory(st, rk, id, newRank) ==
  [rk EXCEPT ![id] = IF newRank # NoRank THEN newRank
                     ELSE IF id \in st THEN rk[id] ELSE NoRank]

\* Faulty variant of ClearRanks: the UPDATE clears nothing.
ClearRanks_Keep(rk) == rk

\* ClearRanks (stories.sql:29-30): UPDATE stories SET rank = NULL.
ClearRanks(rk) == [id \in StoryIDs |-> NoRank]

\* SetRank (stories.sql:32-33): UPDATE stories SET rank = ? WHERE id = ?;
\* a missing row is no error, the statement then changes nothing.
SetRank(st, rk, id, r) == IF id \in st THEN [rk EXCEPT ![id] = r] ELSE rk

\* ListStoriesByRank (stories.sql:23-27): rows with a rank, ORDER BY rank ASC,
\* LIMIT limit OFFSET offset.
RECURSIVE RankedFrom(_, _, _)
RankedFrom(st, rk, r) ==
  IF r > MaxID THEN <<>>
  ELSE IdsAsc({id \in st : rk[id] = r}) \o RankedFrom(st, rk, r + 1)

ListStoriesByRank(st, rk, limit, offset) ==
  LET all == RankedFrom(st, rk, 1)
      last == IF offset + limit < Len(all) THEN offset + limit ELSE Len(all)
  IN SubSeq(all, offset + 1, last)

\* OldOffPageStoryIDs (stories.sql:55-59): o is the set of ids whose fetched_at
\* is before the cutoff; no rankings rows are modelled, so the NOT EXISTS
\* clause is true of every story.
OldOffPageStoryIDs(st, rk, o) == IdsAsc({id \in st : rk[id] = NoRank /\ id \in o})

\* The write lock of the database: SQLite admits one writer; while the swap
\* transaction holds the lock every other write waits (busy_timeout) or fails.
WriteLockFree == txState # "locked"

\* --------------------------------------------------------------- TopList
\* Faulty variant of TopListSet: the copy goes into a slice of length 0.
TopListSet_Empty(ids) == <<>>

\* TopList.Set (toplist.go:17-22): replace the whole list by a copy.
TopListSet(ids) == ids

\* TopList.Page (toplist.go:26-48), the body run under the read lock: the
\* IDs of the 1-indexed page and the total; nil (the empty list) for an empty
\* list and for an offset at or past the end.
TopListPage(ids, page, pageSize) ==
  LET total == Len(ids)
      offset == (page - 1) * pageSize
      end == IF offset + pageSize > total THEN total ELSE offset + pageSize
  IN IF total = 0 THEN [ids |-> <<>>, total |-> 0]
     ELSE IF offset >= total THEN [ids |-> <<>>, total |-> total]
     ELSE [ids |-> SubSeq(ids, offset + 1, end), total |-> total]

\* --------------------------------------------------------- Poller.poll
\* poll returns: its locals (topIDs, rankPairs, updatedIDs, the loop index)
\* cease to exist.
PollLocalsDropped ==
  /\ topIDs' = <<>> /\ i' = 0 /\ rankPairs' = <<>> /\ updatedIDs' = <<>>
  /\ eventData' = <<>>

\* SwapRanks returns: the transaction object is gone.
TxDropped ==
  /\ txState' = "none" /\ txRank' = [id \in StoryIDs |-> NoRank] /\ k' = 1

\* eagerCount of poller.go:77-80.
eagerCount(ids) == IF Len(ids) < EagerCount THEN Len(ids) ELSE EagerCount

\* Control after the iteration with loop index j-1: the eager loop
\* (poller.go:82), the lazy loop (poller.go:97) or Phase 2 (poller.go:112).
LoopPc(ids, j) ==
  IF j < eagerCount(ids) THEN "eager"
  ELSE IF j < Len(ids) THEN "lazy" ELSE "swap"

\* Outcomes of one Fetcher call as the Poller sees them:
\*   "ok"     item fetched and upserted
\*   "absent" upstream returned null / ID 0: nil is returned without an upsert
\*   "error"  GetItem or UpsertStory failed
FetchOutcomes == {"ok", "absent", "error"}

\* poller.go:62-70: TopStories fails and the cycle is abandoned ...
PollTopStoriesFail ==
  /\ pollPc = "idle" /\ ~cancelled /\ nextID <= MaxPolls
  /\ UNCHANGED <<auxVars, storeVars, txVars, topList, pollPc, topIDs, eventData, i, rankPairs,
                 updatedIDs, swapped, cancelled, cleanVars, brokerVars,
                 pubVars, connVars>>

\* Faulty variant of PollTopStories: the TopList is not set before the loops.
PollTopStories_NoSet ==
  /\ pollPc = "idle" /\ ~cancelled /\ nextID <= MaxPolls
  /\ \E ids \in UpstreamLists :
       /\ topIDs' = ids
       /\ pollPc' = LoopPc(ids, 0)
  /\ i' = 0 /\ rankPairs' = <<>> /\ updatedIDs' = <<>> /\ swapped' = FALSE
  /\ UNCHANGED eventData
  /\ UNCHANGED <<auxVars, storeVars, txVars, topList, cancelled, cleanVars,
                 brokerVars, pubVars, connVars>>

\* ... or it returns the ID list, which is published as the TopList at once.
PollTopStories ==
  /\ pollPc = "idle" /\ ~cancelled /\ nextID <= MaxPolls
  /\ \E ids \in UpstreamLists :
       /\ topIDs' = ids
       /\ topList' = TopListSet(ids)
       /\ pollPc' = LoopPc(ids, 0)
  /\ i' = 0 /\ rankPairs' = <<>> /\ updatedIDs' = <<>> /\ swapped' = FALSE
  /\ UNCHANGED eventData
  /\ UNCHANGED <<auxVars, storeVars, txVars, cancelled, cleanVars, brokerVars,
                 pubVars, connVars>>

\* The effect of a successful fetch on the store (FetchStory, fetcher
\* FetchStoryWithComments): upsert with rank nil, fetched_at = now.
FetchUpsert(id) ==
  /\ WriteLockFree
  /\ rank' = UpsertStory(stories, rank, id, NoRank)
  /\ stories' = stories \cup {id}

\* Recording of one loop iteration (poller.go:88-93 and 103-108).
PollRecord(out) ==
  LET id == topIDs[i + 1] IN
  /\ IF out = "ok" THEN FetchUpsert(id) ELSE UNCHANGED storeVars
  /\ IF out = "error"
       THEN UNCHANGED <<rankPairs, updatedIDs>>
       ELSE /\ rankPairs' = Append(rankPairs, [ID |-> id, Rank |-> i + 1])
            /\ updatedIDs' = Append(updatedIDs, id)
  /\ i' = i + 1

\* poller.go:82-94: one iteration of the eager loop.
PollEager ==
  /\ pollPc = "eager" /\ ~cancelled
  /\ \E out \in FetchOutcomes : PollRecord(out)
  /\ pollPc' = LoopPc(topIDs, i + 1)
  /\ UNCHANGED <<auxVars, txVars, topList, topIDs, eventData, swapped, cancelled,
                 cleanVars, brokerVars, pubVars, connVars>>

\* poller.go:83-86: cancellation seen in the eager loop returns from poll.
PollEagerCancelled ==
  /\ pollPc = "eager" /\ cancelled
  /\ pollPc' = "idle"
  /\ PollLocalsDropped
  /\ UNCHANGED <<auxVars, storeVars, txVars, topList, swapped, cancelled, cleanVars,
                 brokerVars, pubVars, connVars>>

\* poller.go:97-109: one iteration of the lazy loop.
PollLazy ==
  /\ pollPc = "lazy" /\ ~cancelled
  /\ \E out \in FetchOutcomes : PollRecord(out)
  /\ pollPc' = LoopPc(topIDs, i + 1)
  /\ UNCHANGED <<auxVars, txVars, topList, topIDs, eventData, swapped, cancelled,
                 cleanVars, brokerVars, pubVars, connVars>>

\* poller.go:98-101: cancellation seen in the lazy loop breaks out of the
\* loop; the function goes on with Phase 2.
PollLazyCancelled ==
  /\ pollPc = "lazy" /\ cancelled
  /\ pollPc' = "swap"
  /\ UNCHANGED <<auxVars, storeVars, txVars, topList, topIDs, eventData, i, rankPairs,
                 updatedIDs, swapped, cancelled, cleanVars,
                 brokerVars, pubVars, connVars>>

\* ------------------------------------------------------------ sse.Broker
\* Faulty variant of AppendRing: the eviction test is > instead of >=.
AppendRing_LateEvict(rg, evt) ==
  Append(IF Len(rg) > RingSize THEN Tail(rg) ELSE rg, evt)

\* The ring buffer update of Publish (sse broker Publish: evict the oldest when
\* len(ring) >= ringSize, then append).  Events are modelled by their IDs; Type
\* and Data are opaque to the broker.
AppendRing(rg, evt) ==
  Append(IF Len(rg) >= RingSize THEN Tail(rg) ELSE rg, evt)

\* Faulty variant of NextEventID: the increment is missing.
NextEventID_Stuck(n) == n

\* b.nextID++ of Publish.
NextEventID(n) == n + 1

\* The locked section of Publish: take the next ID, store the event in the
\* ring, snapshot the subscribers.  With no subscriber the send loop is empty
\* and the call is over.
PublishLocked(p) ==
  /\ pubPc[p] = "idle"
  /\ pubEvt' = [pubEvt EXCEPT ![p] = nextID]
  /\ nextID' = NextEventID(nextID)
  /\ ring' = AppendRing(ring, nextID)
  /\ pubSubs' = [pubSubs EXCEPT ![p] = subscribers]
  /\ pubPc' = [pubPc EXCEPT ![p] = IF subscribers = {} THEN "idle" ELSE "send"]
  /\ UNCHANGED <<subscribers, chans, closed>>

\* A send on a closed channel panics; no caller of Publish recovers, so the
\* process is down.
Crashed == \E p \in Publishers : pubPc[p] = "panicked"

\* One iteration of Publish's send loop, for one channel of the snapshot (Go
\* iterates the subscriber map in no fixed order):
\*   select { case ch <- evt: default: }
\* delivers when the buffer has room, skips when it is full, and panics when
\* the channel has been closed.
PublishSend(p) ==
  /\ ~Crashed
  /\ pubPc[p] = "send"
  /\ \E ch \in pubSubs[p] :
       IF ch \in closed
         THEN /\ pubPc' = [pubPc EXCEPT ![p] = "panicked"]
              /\ UNCHANGED <<chans, pubSubs>>
         ELSE /\ chans' = [chans EXCEPT ![ch] =
                            IF Len(@) < SubDepth THEN Append(@, pubEvt[p]) ELSE @]
              /\ pubSubs' = [pubSubs EXCEPT ![p] = @ \ {ch}]
              /\ pubPc' = [pubPc EXCEPT ![p] =
                            IF pubSubs[p] = {ch} THEN "idle" ELSE "send"]
  /\ UNCHANGED <<auxVars, storeVars, txVars, topList, pollVars, cancelled, cleanVars,
                 nextID, ring, subscribers, closed, pubEvt, connVars>>

\* A publisher (the Poller, a refresh task) calls Publish.
Publish(p) ==
  /\ ~Crashed
  /\ nextID <= MaxEvents
  /\ PublishLocked(p)
  /\ UNCHANGED <<auxVars, storeVars, txVars, topList, pollVars, cancelled, cleanVars,
                 connVars>>

\* Faulty variant of eventsAfter: the range test is lastID < oldest.
eventsAfter_TooOldOffByOne(rg, lastID) ==
  IF Len(rg) = 0 THEN [events |-> <<>>, ok |-> TRUE]
  ELSE IF lastID < rg[1] THEN [events |-> <<>>, ok |-> FALSE]
  ELSE [events |-> SelectSeq(rg, LAMBDA e : e > lastID), ok |-> TRUE]

\* Faulty variant of eventsAfter: the filter is e.ID > lastID + 1.
eventsAfter_SkipsFirst(rg, lastID) ==
  IF Len(rg) = 0 THEN [events |-> <<>>, ok |-> TRUE]
  ELSE IF lastID < rg[1] - 1 THEN [events |-> <<>>, ok |-> FALSE]
  ELSE [events |-> SelectSeq(rg, LAMBDA e : e > lastID + 1), ok |-> TRUE]

\* Faulty variant of eventsAfter: the filter is e.ID >= lastID.
eventsAfter_Inclusive(rg, lastID) ==
  IF Len(rg) = 0 THEN [events |-> <<>>, ok |-> TRUE]
  ELSE IF lastID < rg[1] - 1 THEN [events |-> <<>>, ok |-> FALSE]
  ELSE [events |-> SelectSeq(rg, LAMBDA e : e >= lastID), ok |-> TRUE]

\* Broker.eventsAfter: (events, ok) for a client that has seen lastID.
eventsAfter(rg, lastID) ==
  IF Len(rg) = 0 THEN [events |-> <<>>, ok |-> TRUE]
  ELSE IF lastID < rg[1] - 1 THEN [events |-> <<>>, ok |-> FALSE]
  ELSE [events |-> SelectSeq(rg, LAMBDA e : e > lastID), ok |-> TRUE]

\* Values a client can present as Last-Event-ID.
LastIDs == 0..(MaxEvents + 1)

\* ServeHTTP up to the replay: a parsable Last-Event-ID is answered from
\* eventsAfter (the events, or sync_required when not ok) ...
ConnectWithLastID(c) ==
  /\ ~Crashed
  /\ connPc[c] = "new"
  /\ \E lastID \in LastIDs :
       connReplay' = [connReplay EXCEPT ![c] =
         [has |-> TRUE, lastID |-> lastID,
          events |-> eventsAfter(ring, lastID).events,
          ok |-> eventsAfter(ring, lastID).ok]]
  /\ connPc' = [connPc EXCEPT ![c] = "replayed"]
  /\ UNCHANGED <<auxVars, storeVars, txVars, topList, pollVars, cancelled, cleanVars,
                 brokerVars, pubVars>>

\* ... and a request without one gets no replay.
ConnectFresh(c) ==
  /\ ~Crashed
  /\ connPc[c] = "new"
  /\ connPc' = [connPc EXCEPT ![c] = "replayed"]
  /\ UNCHANGED <<auxVars, storeVars, txVars, topList, pollVars, cancelled, cleanVars,
                 brokerVars, pubVars, connReplay>>

\* Faulty variant of Subscribe: ServeHTTP subscribes before it looks at
\* Last-Event-ID.
Subscribe_BeforeReplay(c) ==
  /\ ~Crashed
  /\ connPc[c] = "new"
  /\ subscribers' = subscribers \cup {c}
  /\ connPc' = [connPc EXCEPT ![c] = "live"]
  /\ connReplay' = [connReplay EXCEPT ![c] = NoReplay]
  /\ UNCHANGED <<auxVars, storeVars, txVars, topList, pollVars, cancelled, cleanVars,
                 nextID, ring, chans, closed, pubVars>>

\* Broker.subscribe: a new channel joins the subscriber set.
Subscribe(c) ==
  /\ ~Crashed
  /\ connPc[c] = "replayed"
  /\ subscribers' = subscribers \cup {c}
  /\ connPc' = [connPc EXCEPT ![c] = "live"]
  /\ connReplay' = [connReplay EXCEPT ![c] = NoReplay]
  /\ UNCHANGED <<auxVars, storeVars, txVars, topList, pollVars, cancelled, cleanVars,
                 nextID, ring, chans, closed, pubVars>>

\* ServeHTTP's loop takes an event from its channel and writes it out.
Receive(c) ==
  /\ ~Crashed
  /\ connPc[c] = "live" /\ chans[c] # <<>>
  /\ chans' = [chans EXCEPT ![c] = Tail(@)]
  /\ UNCHANGED <<auxVars, storeVars, txVars, topList, pollVars, cancelled, cleanVars,
                 nextID, ring, subscribers, closed, pubVars, connVars>>

\* The request context ends; the deferred Broker.unsubscribe first removes
\* the channel under the lock ...
UnsubscribeLocked(c) ==
  /\ ~Crashed
  /\ connPc[c] = "live"
  /\ subscribers' = subscribers \ {c}
  /\ connPc' = [connPc EXCEPT ![c] = "closing"]
  /\ UNCHANGED <<auxVars, storeVars, txVars, topList, pollVars, cancelled, cleanVars,
                 nextID, ring, chans, closed, pubVars, connReplay>>

\* ... and, the lock released, closes it.
UnsubscribeClose(c) ==
  /\ ~Crashed
  /\ connPc[c] = "closing"
  /\ closed' = closed \cup {c}
  /\ connPc' = [connPc EXCEPT ![c] = "gone"]
  /\ UNCHANGED <<auxVars, storeVars, txVars, topList, pollVars, cancelled, cleanVars,
                 nextID, ring, subscribers, chans, pubVars, connReplay>>

NextBroker ==
  \/ \E p \in Publishers : Publish(p) \/ PublishSend(p)
  \/ \E c \in Conns :
       \/ ConnectWithLastID(c) \/ ConnectFresh(c) \/ Subscribe(c)
       \/ Receive(c) \/ UnsubscribeLocked(c) \/ UnsubscribeClose(c)

SpecBroker == Init /\ [][NextBroker]_vars

\* ------------------------------------------------- Poller.poll, Phase 2
SwapPcs == {"swap_clear", "swap_set", "swap_commit"}

\* Faulty variant of SwapAllowed: the floor is not tested.
SwapAllowed_Always(pairs) == TRUE

\* The safety floor of poller.go:112: len(rankPairs) >= 10.
SwapAllowed(pairs) == Len(pairs) >= MinRankPairs

\* poller.go:112-118 with too few pairs: the swap is skipped.
PollSkipSwap ==
  /\ pollPc = "swap" /\ ~SwapAllowed(rankPairs)
  /\ pollPc' = "compute"
  /\ UNCHANGED <<auxVars, storeVars, txVars, topList, topIDs, eventData, i, rankPairs,
                 updatedIDs, swapped, cancelled, cleanVars,
                 brokerVars, pubVars, connVars>>

\* SwapRanks: db.BeginTx(ctx, nil); a cancelled ctx makes it fail.
SwapBegin ==
  /\ pollPc = "swap" /\ SwapAllowed(rankPairs)
  /\ ~cancelled
  /\ txState' = "begun" /\ pollPc' = "swap_clear"
  /\ UNCHANGED <<auxVars, storeVars, txRank, k, topList, topIDs, eventData, i, rankPairs,
                 updatedIDs, swapped, cancelled, cleanVars,
                 brokerVars, pubVars, connVars>>

SwapBeginFail ==
  /\ pollPc = "swap" /\ SwapAllowed(rankPairs)
  /\ pollPc' = "compute"
  /\ UNCHANGED <<auxVars, storeVars, txVars, topList, topIDs, eventData, i, rankPairs,
                 updatedIDs, swapped, cancelled, cleanVars,
                 brokerVars, pubVars, connVars>>

\* Faulty variant of SwapClearRanks: ClearRanks runs on db instead of tx, outside
\* the transaction.
SwapClearRanks_NoTx ==
  /\ pollPc = "swap_clear" /\ ~cancelled
  /\ txState' = "locked"
  /\ rank' = ClearRanks(rank)
  /\ txRank' = ClearRanks(rank)
  /\ k' = 1
  /\ pollPc' = IF Len(rankPairs) = 0 THEN "swap_commit" ELSE "swap_set"
  /\ UNCHANGED <<auxVars, stories, topList, topIDs, eventData, i, rankPairs, updatedIDs,
                 swapped, cancelled, cleanVars, brokerVars, pubVars,
                 connVars>>

\* SwapRanks: q.ClearRanks(ctx, tx), the transaction's first write.
SwapClearRanks ==
  /\ pollPc = "swap_clear" /\ ~cancelled
  /\ txState' = "locked"
  /\ txRank' = ClearRanks(rank)
  /\ k' = 1
  /\ pollPc' = IF Len(rankPairs) = 0 THEN "swap_commit" ELSE "swap_set"
  /\ UNCHANGED <<auxVars, storeVars, topList, topIDs, eventData, i, rankPairs, updatedIDs,
                 swapped, cancelled, cleanVars, brokerVars, pubVars,
                 connVars>>

\* SwapRanks: q.SetRank(ctx, tx, ...) for the k-th pair.
SwapSetRank ==
  /\ pollPc = "swap_set" /\ ~cancelled
  /\ txRank' = SetRank(stories, txRank, rankPairs[k].ID, rankPairs[k].Rank)
  /\ k' = k + 1
  /\ pollPc' = IF k = Len(rankPairs) THEN "swap_commit" ELSE "swap_set"
  /\ UNCHANGED <<auxVars, storeVars, txState, topList, topIDs, eventData, i, rankPairs,
                 updatedIDs, swapped, cancelled, cleanVars,
                 brokerVars, pubVars, connVars>>

\* SwapRanks: tx.Commit() makes the transaction's ranks the committed ones.
SwapCommit ==
  /\ pollPc = "swap_commit" /\ ~cancelled
  /\ rank' = txRank
  /\ TxDropped
  /\ swapped' = TRUE
  /\ pollPc' = "compute"
  /\ UNCHANGED <<auxVars, stories, topList, topIDs, eventData, i, rankPairs,
                 updatedIDs, cancelled, cleanVars, brokerVars,
                 pubVars, connVars>>

\* SwapRanks: a statement or the commit fails (store error or cancelled ctx);
\* the deferred tx.Rollback() discards the transaction.
SwapRollback ==
  /\ pollPc \in SwapPcs
  /\ TxDropped
  /\ pollPc' = "compute"
  /\ UNCHANGED <<auxVars, storeVars, topList, topIDs, eventData, i, rankPairs,
                 updatedIDs, swapped, cancelled, cleanVars,
                 brokerVars, pubVars, connVars>>

\* poller.go:121: p.ranker.ComputeAll(ctx); rankings rows are not modelled.
PollComputeAll ==
  /\ pollPc = "compute"
  /\ pollPc' = "publish"
  /\ UNCHANGED <<auxVars, storeVars, txVars, topList, topIDs, eventData, i, rankPairs,
                 updatedIDs, swapped, cancelled, cleanVars,
                 brokerVars, pubVars, connVars>>

\* Faulty variant of PollPublish: the event is published for an empty list too.
PollPublish_Empty ==
  /\ pollPc = "publish"
  /\ eventData' = updatedIDs
  /\ PublishLocked("poller")
  /\ pollPc' = "sending"
  /\ UNCHANGED <<auxVars, storeVars, txVars, topList, topIDs, i, rankPairs,
                 updatedIDs, swapped, cancelled, cleanVars, connVars>>

\* poller.go:127-133: when something was processed, marshal updatedIDs as the
\* event's story_ids and publish stories_updated.
PollPublish ==
  /\ pollPc = "publish" /\ Len(updatedIDs) > 0
  /\ eventData' = updatedIDs
  /\ PublishLocked("poller")
  /\ pollPc' = "sending"
  /\ UNCHANGED <<auxVars, storeVars, txVars, topList, topIDs, i, rankPairs,
                 updatedIDs, swapped, cancelled, cleanVars, connVars>>

PollNoPublish ==
  /\ pollPc = "publish" /\ Len(updatedIDs) = 0
  /\ pollPc' = "idle"
  /\ PollLocalsDropped
  /\ UNCHANGED <<auxVars, storeVars, txVars, topList, swapped, cancelled, cleanVars,
                 brokerVars, pubVars, connVars>>

\* Publish has returned: poll returns to Start's loop.
PollReturn ==
  /\ pollPc = "sending" /\ pubPc["poller"] = "idle"
  /\ pollPc' = "idle"
  /\ PollLocalsDropped
  /\ UNCHANGED <<auxVars, storeVars, txVars, topList, swapped, cancelled, cleanVars,
                 brokerVars, pubVars, connVars>>

\* ------------------------------------------------------ other store users
\* An API handler backfills a story (FetchStorySingleflight, refresh's
\* FetchStoryWithComments): the same upsert, rank nil.
OnDemandFetch ==
  /\ \E id \in StoryIDs : FetchUpsert(id)
  /\ UNCHANGED <<auxVars, txVars, topList, pollVars, cancelled, cleanVars, brokerVars,
                 pubVars, connVars>>

\* main.go: workerCancel() at shutdown.
Cancel ==
  /\ ~cancelled
  /\ cancelled' = TRUE
  /\ UNCHANGED <<auxVars, storeVars, txVars, topList, pollVars, cleanVars, brokerVars,
                 pubVars, connVars>>

\* ------------------------------------------------------- Cleaner.cleanup
\* cleaner.go:49-54: the candidate list is read once; which stories are older
\* than the cutoff is an input.
CleanStart ==
  /\ cleanPc = "idle" /\ ~cancelled
  /\ \E o \in SUBSET stories :
       cleanIds' = OldOffPageStoryIDs(stories, rank, o)
  /\ cleanPc' = "running"
  /\ UNCHANGED <<auxVars, storeVars, txVars, topList, pollVars, cancelled, brokerVars,
                 pubVars, connVars>>

\* cleaner.go:57-67: delete the next candidate; the row goes with its rank.
CleanDelete ==
  /\ cleanPc = "running" /\ cleanIds # <<>> /\ ~cancelled
  /\ WriteLockFree
  /\ stories' = stories \ {Head(cleanIds)}
  /\ rank' = [rank EXCEPT ![Head(cleanIds)] = NoRank]
  /\ cleanIds' = Tail(cleanIds)
  /\ UNCHANGED <<auxVars, txVars, topList, pollVars, cancelled, cleanPc, brokerVars,
                 pubVars, connVars>>

\* cleaner.go:62-65: a failed deletion (a store error, or a row of comments,
\* articles or rankings that references the story: db.go:48-78 declares the
\* foreign keys without ON DELETE CASCADE) is logged and skipped.
CleanDeleteFail ==
  /\ cleanPc = "running" /\ cleanIds # <<>> /\ ~cancelled
  /\ cleanIds' = Tail(cleanIds)
  /\ UNCHANGED <<auxVars, storeVars, txVars, topList, pollVars, cancelled, cleanPc,
                 brokerVars, pubVars, connVars>>

\* cleaner.go:58-61 and 69-77: the loop ends, at the end of the list or on
\* cancellation.
CleanDone ==
  /\ cleanPc = "running" /\ (cleanIds = <<>> \/ cancelled)
  /\ cleanPc' = "idle" /\ cleanIds' = <<>>
  /\ UNCHANGED <<auxVars, storeVars, txVars, topList, pollVars, cancelled, brokerVars,
                 pubVars, connVars>>

NextPoll ==
  \/ PollTopStoriesFail \/ PollTopStories
  \/ PollEager \/ PollEagerCancelled \/ PollLazy \/ PollLazyCancelled
  \/ PollSkipSwap \/ SwapBegin \/ SwapBeginFail \/ SwapClearRanks
  \/ SwapSetRank \/ SwapCommit \/ SwapRollback
  \/ PollComputeAll \/ PollPublish \/ PollNoPublish \/ PollReturn
  \/ OnDemandFetch \/ Cancel
  \/ CleanStart \/ CleanDelete \/ CleanDeleteFail \/ CleanDone

SpecPoll == Init /\ [][NextPoll]_vars

\* ------------------------------------------------- Fetcher singleflight
\* The singleflight.Group a method uses: sfStory for the story and the
\* story+comments fetch, sfComments for the comment fetch.
SfGroup(kind) == IF kind = "comments" THEN "sfComments" ELSE "sfStory"

\* The flight a call belongs to: its group and fmt.Sprintf(kind + "-%d", id).
SfKeyOf(kind, id) == <<SfGroup(kind), kind, id>>

\* Faulty variant of InFlight: the lookup in the group's map never finds a call.
InFlight_Never(pc, key, fkey) == FALSE

\* Group.Do's lookup g.m[key]: the key is in the map while a caller executes
\* fn for it.
InFlight(pc, key, fkey) ==
  \E d \in SfCallers : pc[d] = "exec" /\ key[d] = fkey

\* Results of the function run by Do: FetchStory, FetchStoryWithComments or
\* FetchComments returning nil or an error.
FetchErrs == {"nil", "error"}

\* A caller enters Group.Do: it joins the call in flight for its key and
\* waits, or it registers a new call and runs fn, which performs the upstream
\* operation.
SfDo(c) ==
  /\ sfPc[c] = "idle"
  /\ \E kind \in SfKinds, id \in SfIDs :
       /\ sfKey' = [sfKey EXCEPT ![c] = SfKeyOf(kind, id)]
       /\ sfPc' = [sfPc EXCEPT ![c] =
                     IF InFlight(sfPc, sfKey, SfKeyOf(kind, id)) THEN "wait" ELSE "exec"]
  /\ UNCHANGED <<serverVars, lateVars, clientVars, treeVars, itemVars, commentVars, sfErr>>

\* Faulty variant of SfFnReturn: only the executing caller gets fn's error, the
\* waiting callers return nil.
SfFnReturn_WaitersNil(c) ==
  /\ sfPc[c] = "exec"
  /\ \E err \in FetchErrs :
       sfErr' = [d \in SfCallers |->
                  IF d = c THEN err
                  ELSE IF sfPc[d] = "wait" /\ sfKey[d] = sfKey[c] THEN "nil"
                  ELSE sfErr[d]]
  /\ sfPc' = [d \in SfCallers |->
                IF sfKey[d] = sfKey[c] /\ sfPc[d] \in {"exec", "wait"}
                  THEN "ret" ELSE sfPc[d]]
  /\ UNCHANGED <<serverVars, lateVars, clientVars, treeVars, itemVars, commentVars, sfKey>>

\* fn returns in the executing caller: the call's err is set, the key leaves
\* the map and every caller waiting on the call is released with that err.
SfFnReturn(c) ==
  /\ sfPc[c] = "exec"
  /\ \E err \in FetchErrs :
       sfErr' = [d \in SfCallers |->
                  IF sfKey[d] = sfKey[c] /\ sfPc[d] \in {"exec", "wait"}
                    THEN err ELSE sfErr[d]]
  /\ sfPc' = [d \in SfCallers |->
                IF sfKey[d] = sfKey[c] /\ sfPc[d] \in {"exec", "wait"}
                  THEN "ret" ELSE sfPc[d]]
  /\ UNCHANGED <<serverVars, lateVars, clientVars, treeVars, itemVars, commentVars, sfKey>>

\* The *Singleflight method returns the err of its call to its caller.
SfReturn(c) ==
  /\ sfPc[c] = "ret"
  /\ sfPc' = [sfPc EXCEPT ![c] = "idle"]
  /\ sfKey' = [sfKey EXCEPT ![c] = NoKey]
  /\ sfErr' = [sfErr EXCEPT ![c] = "none"]
  /\ UNCHANGED <<serverVars, lateVars, clientVars, treeVars, itemVars, commentVars>>

NextFlight == \E c \in SfCallers : SfDo(c) \/ SfFnReturn(c) \/ SfReturn(c)

SpecFlight == Init /\ [][NextFlight]_vars

\* --------------------------------------------------------------- hn.Client
\* Requests that are outstanding: between acquire and the deferred release.
Holders(pc) == {g \in Requesters : pc[g] = "request"}

\* Faulty variant of PermitFree: the send on sem never blocks.
PermitFree_Always(h) == TRUE

\* Client.acquire: the send c.sem <- struct{}{} can proceed while the channel
\* of capacity PoolSize is not full; h is the set of goroutines whose permit
\* is in the channel.
PermitFree(h) == Cardinality(h) < PoolSize

\* The goroutines of the GetItems batch that have not returned: wg.Wait()
\* returns when there is none.
WalkBatch == {g \in Requesters : clOp[g] = "GetItems"}

notClientVars == <<serverVars, lateVars, flightVars, treeVars, itemVars, commentVars>>

\* A goroutine calls TopStories or GetItem and reaches acquire.
ClientCall(g) ==
  /\ clPc[g] = "idle"
  /\ \E op \in {"TopStories", "GetItem"} : clOp' = [clOp EXCEPT ![g] = op]
  /\ clPc' = [clPc EXCEPT ![g] = "acquire"]
  /\ UNCHANGED <<notClientVars, held, ctxDone, walkCalls>>

\* fetchCommentsRecursive calls GetItems, for a story's kids or, after the
\* batch before has returned, for the kids of one of its items; GetItems
\* starts one goroutine per ID at once and each calls GetItem.
ClientGetItems ==
  /\ WalkBatch = {} /\ walkCalls < MaxWalkCalls
  /\ \E S \in SUBSET {g \in Requesters : clPc[g] = "idle"} :
       /\ Cardinality(S) >= 2
       /\ clPc' = [g \in Requesters |-> IF g \in S THEN "acquire" ELSE clPc[g]]
       /\ clOp' = [g \in Requesters |-> IF g \in S THEN "GetItems" ELSE clOp[g]]
  /\ walkCalls' = walkCalls + 1
  /\ UNCHANGED <<notClientVars, held, ctxDone>>

\* The walk is over: the outermost fetchCommentsRecursive returns.
ClientWalkReturn ==
  /\ WalkBatch = {} /\ walkCalls > 0
  /\ walkCalls' = 0
  /\ UNCHANGED <<notClientVars, clPc, clOp, held, ctxDone>>

\* The context of a call waiting in acquire is cancelled or times out (for
\* an outstanding request this is one of the ways it fails).
ClientCtxDone(g) ==
  /\ clPc[g] = "acquire" /\ g \notin ctxDone
  /\ ctxDone' = ctxDone \cup {g}
  /\ UNCHANGED <<notClientVars, clPc, clOp, held, walkCalls>>

\* Client.acquire gets a permit (the select may take the send also when the
\* context is done); the HTTP request goes out.
ClientAcquire(g) ==
  /\ clPc[g] = "acquire" /\ PermitFree(held)
  /\ held' = held \cup {g}
  /\ clPc' = [clPc EXCEPT ![g] = "request"]
  /\ ctxDone' = ctxDone \ {g}
  /\ UNCHANGED <<notClientVars, clOp, walkCalls>>

\* Faulty variant of ClientAcquireCancelled: the permit was sent before the
\* context is looked at, and the error return leaves it in the channel.
ClientAcquireCancelled_AfterSend(g) ==
  /\ clPc[g] = "acquire" /\ g \in ctxDone /\ PermitFree(held)
  /\ held' = held \cup {g}
  /\ clPc' = [clPc EXCEPT ![g] = "idle"]
  /\ clOp' = [clOp EXCEPT ![g] = "none"]
  /\ ctxDone' = ctxDone \ {g}
  /\ UNCHANGED <<notClientVars, walkCalls>>

\* Client.acquire returns ctx.Err(): the select took <-ctx.Done(); the caller
\* returns the error without a request.
ClientAcquireCancelled(g) ==
  /\ clPc[g] = "acquire" /\ g \in ctxDone
  /\ clPc' = [clPc EXCEPT ![g] = "idle"]
  /\ clOp' = [clOp EXCEPT ![g] = "none"]
  /\ ctxDone' = ctxDone \ {g}
  /\ UNCHANGED <<notClientVars, held, walkCalls>>

\* Faulty variant of ClientRelease: the return does not receive from sem.
ClientRelease_NoReceive(g) ==
  /\ clPc[g] = "request"
  /\ clPc' = [clPc EXCEPT ![g] = "idle"]
  /\ clOp' = [clOp EXCEPT ![g] = "none"]
  /\ UNCHANGED <<notClientVars, held, ctxDone, walkCalls>>

\* The response is read or the request fails (a cancelled context, the
\* client's timeout, a body that does not decode); on each return path the
\* deferred release takes the permit out of the channel.
ClientRelease(g) ==
  /\ clPc[g] = "request"
  /\ held' = held \ {g}
  /\ clPc' = [clPc EXCEPT ![g] = "idle"]
  /\ clOp' = [clOp EXCEPT ![g] = "none"]
  /\ UNCHANGED <<notClientVars, ctxDone, walkCalls>>

NextClient ==
  \/ ClientGetItems \/ ClientWalkReturn
  \/ \E g \in Requesters :
       \/ ClientCall(g) \/ ClientCtxDone(g) \/ ClientAcquire(g)
       \/ ClientAcquireCancelled(g) \/ ClientRelease(g)

SpecClient == Init /\ [][NextClient]_vars

\* Scheduling: every upstream request ends (http.Client has a 15 s timeout),
\* so a holder's release is taken; a goroutine blocked in the send on sem is
\* queued on the channel and is handed the slot a receive frees, so an
\* acquisition that can proceed again and again is taken.
FairClient ==
  /\ SpecClient
  /\ \A g \in Requesters : WF_vars(ClientRelease(g)) /\ SF_vars(ClientAcquire(g))

\* ---------------------------------------------------------- GetCommentTree
\* GetCommentsByStory: the story's rows ORDER BY time ASC.  HN allocates item
\* IDs in time order, so the rows come in ascending ID order.
GetCommentsByStory(rows) == IdsAsc({c \in CommentIDs : rows[c].present})

\* Faulty variant of IsRootRow: a row is a root only when parent_id is NULL.
IsRootRow_NullOnly(rows, c) == rows[c].parent = NoParent

\* comments.go:36-42: a node is appended to roots when ParentID is nil or
\* byID has no node for it.
IsRootRow(rows, c) ==
  rows[c].parent = NoParent \/ ~rows[rows[c].parent].present

\* comments.go:24-43: roots and every node's Children, in row order.
BuildTree(rows) ==
  LET all == GetCommentsByStory(rows) IN
  [roots |-> SelectSeq(all, LAMBDA c : IsRootRow(rows, c)),
   children |-> [p \in CommentIDs |->
      SelectSeq(all, LAMBDA c : ~IsRootRow(rows, c) /\ rows[c].parent = p)]]

\* Faulty variant of pruneDeleted: every deleted comment is removed.
RECURSIVE pruneDeleted_AllDeleted(_, _, _)
pruneDeleted_AllDeleted(list, ch, rows) ==
  IF list = <<>> THEN <<>>
  ELSE (IF rows[Head(list)].deleted THEN <<>> ELSE <<Head(list)>>)
         \o pruneDeleted_AllDeleted(Tail(list), ch, rows)

\* pruneDeleted (comments.go:49-59): prune each node's children first, then
\* drop the node when it is deleted and has no child left.
RECURSIVE pruneDeleted(_, _, _)
pruneDeleted(list, ch, rows) ==
  IF list = <<>> THEN <<>>
  ELSE LET c == Head(list)
           kept == pruneDeleted(ch[c], ch, rows)
       IN (IF rows[c].deleted /\ Len(kept) = 0 THEN <<>> ELSE <<c>>)
            \o pruneDeleted(Tail(list), ch, rows)

\* GetCommentTree (comments.go:14-46): the pruned roots, each node with its
\* pruned Children.
GetCommentTree(rows) ==
  LET b == BuildTree(rows) IN
  [read |-> TRUE,
   roots |-> pruneDeleted(b.roots, b.children, rows),
   children |-> [p \in CommentIDs |-> pruneDeleted(b.children[p], b.children, rows)]]

\* UpsertComment: the fetcher writes one comment row.  A reply's ID exceeds
\* its parent's, so parent_id is NULL or a smaller ID.
UpsertComment ==
  /\ \E c \in CommentIDs, p \in 0..(MaxComment - 1), d \in BOOLEAN :
       /\ p < c
       /\ treeRows' = [treeRows EXCEPT ![c] =
                         [present |-> TRUE, parent |-> p, deleted |-> d]]
  /\ tree' = EmptyTree
  /\ UNCHANGED <<serverVars, lateVars, flightVars, clientVars, itemVars, commentVars>>

\* An API handler calls GetCommentTree for the story.
ReadCommentTree ==
  /\ tree' = GetCommentTree(treeRows)
  /\ UNCHANGED <<serverVars, lateVars, flightVars, clientVars, treeRows, itemVars, commentVars>>

NextTree == UpsertComment \/ ReadCommentTree

SpecTree == Init /\ [][NextTree]_vars

\* ------------------------------------------------------ Fetcher.FetchStory
\* Faulty variant of UpsertStoryRow: rank = excluded.rank, without COALESCE.
UpsertStoryRow_RankOverwritten(rows, id, data, t, rk) ==
  [rows EXCEPT ![id] =
     [present |-> TRUE, data |-> data, fetched_at |-> t, rank |-> rk]]

\* UpsertStory (stories.sql:1-10) on whole rows: every column is taken from
\* the new record, except rank = COALESCE(excluded.rank, stories.rank).
UpsertStoryRow(rows, id, data, t, rk) ==
  [rows EXCEPT ![id] =
     [present |-> TRUE, data |-> data, fetched_at |-> t,
      rank |-> IF rk # NoRank THEN rk
               ELSE IF rows[id].present THEN rows[id].rank ELSE NoRank]]

\* A second passes.
Tick ==
  /\ now < MaxNow
  /\ now' = now + 1
  /\ UNCHANGED <<serverVars, lateVars, flightVars, clientVars, treeVars, storyRow, fs,
                 commentVars>>

\* FetchStory: f.client.GetItem(ctx, id) returns the upstream record.
FetchStoryGetItem ==
  /\ fs.pc = "idle"
  /\ \E id \in ItemIDs, item \in ItemData \cup {NullItem} :
       fs' = [pc |-> "got", id |-> id, item |-> item]
  /\ UNCHANGED <<serverVars, lateVars, flightVars, clientVars, treeVars, storyRow, now,
                 commentVars>>

\* FetchStory: nothing is written for a nil item or ID 0; else the record is
\* upserted with fetched_at = now and rank nil.
FetchStoryUpsert ==
  /\ fs.pc = "got"
  /\ storyRow' = IF fs.item = NullItem THEN storyRow
                 ELSE UpsertStoryRow(storyRow, fs.id, fs.item, now, NoRank)
  /\ fs' = NoFetch
  /\ UNCHANGED <<serverVars, lateVars, flightVars, clientVars, treeVars, now, commentVars>>

\* Another writer of the row: SetRank / ClearRanks of a committed rank swap.
StoryRankSet ==
  /\ \E id \in ItemIDs, r \in {NoRank, 1} :
       /\ storyRow[id].present
       /\ storyRow' = [storyRow EXCEPT ![id].rank = r]
  /\ UNCHANGED <<serverVars, lateVars, flightVars, clientVars, treeVars, now, fs,
                 commentVars>>

NextItem == Tick \/ FetchStoryGetItem \/ FetchStoryUpsert \/ StoryRankSet

SpecItem == Init /\ [][NextItem]_vars

\* --------------------------------------------------- Fetcher.FetchComments
\* The upstream comment tree of the story: comments 1 and 2 answer the
\* story, 3 answers 1, 4 answers 3.
UpKids == [c \in CommentIDs |->
            IF c = 1 THEN <<3>> ELSE IF c = 3 THEN <<4>> ELSE <<>>]

\* The kids lists FetchComments is called with.
KidsLists == {<<1, 2>>, <<1>>, <<2>>}

\* The comment IDs for which GetItems yields an item that is then upserted;
\* for the others it yields nil (or the upsert fails) and the walk goes on.
AvailSets == {CommentIDs} \cup {CommentIDs \ {c} : c \in CommentIDs}

\* Faulty variant of fetchCommentsRecursive: kids that have a row are skipped.
RECURSIVE fetchCommentsRecursive_SkipStored(_, _, _)
fetchCommentsRecursive_SkipStored(kids, avail, stored) ==
  LET new == {c \in Range(kids) : c \notin stored}
      got == new \cap avail
      sub(c) == fetchCommentsRecursive_SkipStored(UpKids[c], avail, stored)
  IN [req |-> new \cup UNION {sub(c).req : c \in got},
      ups |-> got \cup UNION {sub(c).ups : c \in got}]

\* fetchCommentsRecursive: GetItems requests every ID of kids; each item that
\* came back is upserted and its Kids are walked in turn.  The result names
\* the IDs requested and the IDs upserted.
RECURSIVE fetchCommentsRecursive(_, _, _)
fetchCommentsRecursive(kids, avail, stored) ==
  LET got == Range(kids) \cap avail
      sub(c) == fetchCommentsRecursive(UpKids[c], avail, stored)
  IN [req |-> Range(kids) \cup UNION {sub(c).req : c \in got},
      ups |-> got \cup UNION {sub(c).ups : c \in got}]

\* FetchComments(storyID, kids) runs to its end.
FetchComments ==
  /\ cm.pc = "idle"
  /\ \E kids \in KidsLists, avail \in AvailSets :
       LET w == fetchCommentsRecursive(kids, avail, comments) IN
       /\ \A c \in w.req : reqCount[c] < MaxWalks
       /\ reqCount' = [c \in CommentIDs |->
                         IF c \in w.req THEN reqCount[c] + 1 ELSE reqCount[c]]
       /\ comments' = comments \cup w.ups
       /\ cm' = [pc |-> "walked", kids |-> kids, avail |-> avail]
  /\ UNCHANGED <<serverVars, lateVars, flightVars, clientVars, treeVars, itemVars>>

\* FetchComments returns.
FetchCommentsReturn ==
  /\ cm.pc = "walked"
  /\ cm' = NoWalk
  /\ UNCHANGED <<serverVars, lateVars, flightVars, clientVars, treeVars, itemVars,
                 comments, reqCount>>

NextComments == FetchComments \/ FetchCommentsReturn

SpecComments == Init /\ [][NextComments]_vars

\* ---------------------------------------------------- Ranker.ComputeAll
\* A rankings row is (story_id, computed_at) within its period; the score
\* column is the subject of the score operators further down.
notRankVars == <<serverVars, earlyVars, loopVars, scoreVars, pageVars, moreVars>>

\* The window [fromTime, toTime) computePeriod is called with for a period
\* (ranker.go:27-34).
Window(p, n) ==
  IF p = "day" THEN [from |-> n - DayLen, to |-> n]
  ELSE IF p = "yesterday" THEN [from |-> n - 2 * DayLen, to |-> n - DayLen]
  ELSE [from |-> n - WeekLen, to |-> n]

\* ListStoriesByTimeRange (stories.sql:50-53): rows with from <= time < to,
\* ORDER BY time DESC (equal times in ID order here; SQL leaves it open).
RECURSIVE TimeDescFrom(_, _, _)
TimeDescFrom(tm, ids, t) ==
  IF t < 0 THEN <<>>
  ELSE IdsAsc({id \in ids : tm[id] = t}) \o TimeDescFrom(tm, ids, t - 1)

ListStoriesByTimeRange(tm, from, to) ==
  TimeDescFrom(tm, {id \in RankIDs : tm[id] # NoTime /\ tm[id] >= from /\ tm[id] < to},
               MaxNow)

\* The rows computePeriod inserts for a listing: one per story, computed_at
\* the call's now.
NewRows(list, n) == {[story_id |-> list[j], computed_at |-> n] : j \in 1..Len(list)}

\* computePeriod returns with result r: ComputeAll calls it for the next
\* period or returns itself.
NextCall(r) ==
  IF rc.idx < Len(Periods)
    THEN [pc |-> "list", now |-> rc.now, idx |-> rc.idx + 1, list |-> <<>>,
          tx |-> {}, k |-> 1, result |-> r]
    ELSE [NoCompute EXCEPT !.result = r, !.now = rc.now]

\* A story is stored (by a poll cycle or an on-demand fetch) with its
\* creation time, which is not after the present; upstream assigns IDs in
\* the order of creation.
StoryCreated ==
  /\ \E id \in RankIDs, t \in 0..now :
       /\ storyTime[id] = NoTime
       /\ \A j \in RankIDs :
            storyTime[j] # NoTime =>
              IF j < id THEN storyTime[j] <= t ELSE t <= storyTime[j]
       /\ storyTime' = [storyTime EXCEPT ![id] = t]
  /\ UNCHANGED <<notRankVars, rankings, rc>>

\* ranker.go:23-28: ComputeAll takes time.Now() once and starts with "day".
\* Calls are a poll interval apart, so each has a later now than the one
\* before (kept in rc.now between calls).
ComputeAll ==
  /\ rc.pc = "idle" /\ now > rc.now
  /\ rc' = [pc |-> "list", now |-> now, idx |-> 1, list |-> <<>>, tx |-> {},
            k |-> 1, result |-> "none"]
  /\ UNCHANGED <<notRankVars, storyTime, rankings>>

\* ranker.go:38-40: the stories of the window are listed, outside the
\* transaction.
RankList ==
  /\ rc.pc = "list"
  /\ LET w == Window(Periods[rc.idx], rc.now) IN
       rc' = [rc EXCEPT !.pc = "begin",
                        !.list = ListStoriesByTimeRange(storyTime, w.from, w.to)]
  /\ UNCHANGED <<notRankVars, storyTime, rankings>>

\* ranker.go:47: BeginTx; the transaction sees the committed rows.
RankBeginTx ==
  /\ rc.pc = "begin"
  /\ rc' = [rc EXCEPT !.pc = "delete", !.tx = rankings[Periods[rc.idx]]]
  /\ UNCHANGED <<notRankVars, storyTime, rankings>>

\* Faulty variant of RankDelete: the DELETE runs on the database handle, not
\* in the transaction, and is committed at once.
RankDelete_NoTx ==
  /\ rc.pc = "delete"
  /\ rankings' = [rankings EXCEPT ![Periods[rc.idx]] = {}]
  /\ rc' = [rc EXCEPT !.pc = IF rc.list = <<>> THEN "commit" ELSE "insert",
                      !.tx = {}, !.k = 1]
  /\ UNCHANGED <<notRankVars, storyTime>>

\* Faulty variant of RankDelete: the DELETE removes no row.
RankDelete_KeepsRows ==
  /\ rc.pc = "delete"
  /\ rc' = [rc EXCEPT !.pc = IF rc.list = <<>> THEN "commit" ELSE "insert",
                      !.k = 1]
  /\ UNCHANGED <<notRankVars, storyTime, rankings>>

\* ranker.go:54: DeleteRankingsByPeriod in the transaction (rankings SQL:
\* DELETE FROM rankings WHERE period = ?).
RankDelete ==
  /\ rc.pc = "delete"
  /\ rc' = [rc EXCEPT !.pc = IF rc.list = <<>> THEN "commit" ELSE "insert",
                      !.tx = {}, !.k = 1]
  /\ UNCHANGED <<notRankVars, storyTime, rankings>>

\* ranker.go:59-75: InsertRanking of the k-th listed story in the transaction.
RankInsert ==
  /\ rc.pc = "insert"
  /\ rc' = [rc EXCEPT !.tx = @ \cup NewRows(<<rc.list[rc.k]>>, rc.now),
                      !.k = @ + 1,
                      !.pc = IF rc.k = Len(rc.list) THEN "commit" ELSE "insert"]
  /\ UNCHANGED <<notRankVars, storyTime, rankings>>

\* ranker.go:77: tx.Commit() makes the transaction's rows the committed ones.
RankCommit ==
  /\ rc.pc = "commit"
  /\ rankings' = [rankings EXCEPT ![Periods[rc.idx]] = rc.tx]
  /\ rc' = NextCall("committed")
  /\ UNCHANGED <<notRankVars, storyTime>>

\* ranker.go:41-44, 48-51, 55-57, 72-74, 78-80: the statement at hand fails
\* (store error, cancelled context); computePeriod logs and returns, and the
\* deferred tx.Rollback() discards the transaction.
RankFail ==
  /\ rc.pc # "idle"
  /\ rc' = NextCall(rc.pc)
  /\ UNCHANGED <<notRankVars, storyTime, rankings>>

\* What a reader's statement on the rows of a period returns (the period
\* handler's CountRankingsByPeriod and GetStoriesByPeriod, the Cleaner's NOT
\* EXISTS subquery): the committed rows, whatever a transaction in progress
\* has written.
ReadRankings(p) == rankings[p]

NextRank ==
  \/ Tick \/ StoryCreated \/ ComputeAll \/ RankList \/ RankBeginTx \/ RankDelete
  \/ RankInsert \/ RankCommit \/ RankFail

SpecRank == Init /\ [][NextRank]_vars

\* --------------------------------------------------- computePeriod score
\* Scores are real numbers of the form num / sqrt(cube / HourSecs^3), kept
\* as the pair (num, cube) so that they are compared exactly:
\*   (s.Score - 1) / (ageHours + 2)^1.5  with  ageHours = age / HourSecs
\* has num = s.Score - 1 and cube = (age + 2 * HourSecs)^3, and float64(s.Score)
\* has num = s.Score and cube = HourSecs^3.
Cube(x) == x * x * x

\* Faulty variant of score: a numerator below zero is raised to zero.
score_Clamped(rawScore, age, useRawScore) ==
  IF useRawScore THEN [num |-> rawScore, cube |-> Cube(HourSecs)]
  ELSE [num |-> IF rawScore - 1 < 0 THEN 0 ELSE rawScore - 1,
        cube |-> Cube(age + 2 * HourSecs)]

\* ranker.go:60-66: the score of a story with s.Score = rawScore and
\* now - s.Time = age seconds.
score(rawScore, age, useRawScore) ==
  IF useRawScore THEN [num |-> rawScore, cube |-> Cube(HourSecs)]
  ELSE [num |-> rawScore - 1, cube |-> Cube(age + 2 * HourSecs)]

\* x < y for two scores: t |-> sign(t) * t^2 is increasing and the cubes are
\* positive, so the scores compare as their signed squares do.
SignedSq(n) == IF n < 0 THEN 0 - n * n ELSE n * n

ScoreLess(x, y) == SignedSq(x.num) * y.cube < SignedSq(y.num) * x.cube

ScoreEq(x, y) == SignedSq(x.num) * y.cube = SignedSq(y.num) * x.cube

\* computePeriod scores a story: "yesterday" with the raw score, "day" and
\* "week" with the decayed one; the stories of those windows are older than
\* now (time < toTime = now).
ScoreStory(x) ==
  /\ \E rawScore \in 0..MaxRawScore, age \in 1..MaxAge, useRawScore \in BOOLEAN :
       scored' = [scored EXCEPT ![x] =
                    [done |-> TRUE, rawScore |-> rawScore, age |-> age,
                     useRawScore |-> useRawScore,
                     score |-> score(rawScore, age, useRawScore)]]
  /\ UNCHANGED <<serverVars, earlyVars, loopVars, rankVars, pageVars, moreVars>>

NextScore == \E x \in Slots : ScoreStory(x)

SpecScore == Init /\ [][NextScore]_vars

\* ------------------------------------------- TopList under its RWMutex
\* Everything but the TopList, its mutex and the calls on it.
notPageVars == <<storeVars, txVars, pollVars, cancelled, cleanVars, brokerVars,
                 pubVars, connVars, earlyVars, loopVars, rankVars, scoreVars,
                 moreVars>>

\* Faulty variant of RLockFree: the read lock is granted beside a writer.
RLockFree_Always == TRUE

\* sync.RWMutex: RLock is granted while no writer holds the mutex, Lock while
\* nobody holds it.
RLockFree == ~mu.writer

\* toplist.go:18: the Poller calls Set(ids) and takes the write lock.
SetLock ==
  /\ setCall.pc = "idle" /\ ~mu.writer /\ mu.readers = {}
  /\ \E ids \in UpstreamLists : setCall' = [pc |-> "make", ids |-> ids]
  /\ mu' = [mu EXCEPT !.writer = TRUE]
  /\ UNCHANGED <<notPageVars, topList, pageCall>>

\* toplist.go:20: t.ids = make([]int, len(ids)), a slice of zeros.
SetMake ==
  /\ setCall.pc = "make"
  /\ topList' = [j \in 1..Len(setCall.ids) |-> 0]
  /\ setCall' = [setCall EXCEPT !.pc = "copy"]
  /\ UNCHANGED <<notPageVars, mu, pageCall>>

\* toplist.go:21: copy(t.ids, ids).
SetCopy ==
  /\ setCall.pc = "copy"
  /\ topList' = TopListSet(setCall.ids)
  /\ setCall' = [setCall EXCEPT !.pc = "unlock"]
  /\ UNCHANGED <<notPageVars, mu, pageCall>>

\* toplist.go:19: the deferred Unlock; Set returns.
SetUnlock ==
  /\ setCall.pc = "unlock"
  /\ mu' = [mu EXCEPT !.writer = FALSE]
  /\ setCall' = [pc |-> "idle", ids |-> <<>>]
  /\ UNCHANGED <<notPageVars, topList, pageCall>>

\* toplist.go:27: a handler calls Page(page, pageSize) and takes the read
\* lock; held is the list the TopList holds at that moment.
PageRLock(r) ==
  /\ pageCall[r].pc = "idle" /\ RLockFree
  /\ \E page \in Pages, pageSize \in PageSizes :
       pageCall' = [pageCall EXCEPT ![r] = [pc |-> "total", page |-> page,
                                pageSize |-> pageSize, held |-> topList,
                                total |-> 0, ids |-> <<>>]]
  /\ mu' = [mu EXCEPT !.readers = @ \cup {r}]
  /\ UNCHANGED <<notPageVars, topList, setCall>>

\* toplist.go:30: total := len(t.ids).
PageTotal(r) ==
  /\ pageCall[r].pc = "total"
  /\ pageCall' = [pageCall EXCEPT ![r].total = Len(topList), ![r].pc = "slice"]
  /\ UNCHANGED <<notPageVars, topList, mu, setCall>>

\* toplist.go:31-47: the early returns for an empty list and an offset past
\* the end, else the copy of t.ids[offset:end], with end computed from total
\* (a slice expression out of range panics).
PageSlice(r) ==
  /\ pageCall[r].pc = "slice"
  /\ LET total == pageCall[r].total
         offset == (pageCall[r].page - 1) * pageCall[r].pageSize
         end == IF offset + pageCall[r].pageSize > total THEN total
                ELSE offset + pageCall[r].pageSize
     IN pageCall' = [pageCall EXCEPT ![r].pc = "unlock",
                         ![r].ids = IF total = 0 \/ offset >= total THEN <<>>
                                    ELSE IF end > Len(topList) THEN <<"panic">>
                                    ELSE SubSeq(topList, offset + 1, end)]
  /\ UNCHANGED <<notPageVars, topList, mu, setCall>>

\* toplist.go:28: the deferred RUnlock; Page returns (ids, total).
PageRUnlock(r) ==
  /\ pageCall[r].pc = "unlock"
  /\ pageCall' = [pageCall EXCEPT ![r].pc = "returned"]
  /\ mu' = [mu EXCEPT !.readers = @ \ {r}]
  /\ UNCHANGED <<notPageVars, topList, setCall>>

\* The handler is done with the result.
PageDone(r) ==
  /\ pageCall[r].pc = "returned"
  /\ pageCall' = [pageCall EXCEPT ![r] = NoPage]
  /\ UNCHANGED <<notPageVars, topList, mu, setCall>>

NextPage ==
  \/ SetLock \/ SetMake \/ SetCopy \/ SetUnlock
  \/ \E r \in Readers :
       PageRLock(r) \/ PageTotal(r) \/ PageSlice(r) \/ PageRUnlock(r) \/ PageDone(r)

SpecPage == Init /\ [][NextPage]_vars

\* ----------------------------------------------- RefreshHandler.Refresh
oldVars == <<serverVars, earlyVars, loopVars, rankVars, scoreVars, pageVars>>

\* h.lastFetch is a map: a function from the story IDs that have an entry.
HasEntry(m, id) == id \in DOMAIN m

\* Faulty variant of sweepLocked: every entry of an earlier tick is removed.
sweepLocked_AnyAge(m, t) ==
  [id \in {x \in DOMAIN m : ~(t - m[x] > 0)} |-> m[id]]

\* sweepLocked (refresh.go:87-93): delete the entries older than
\* rateLimitSweepAge.
sweepLocked(m, t) ==
  [id \in {x \in DOMAIN m : ~(t - m[x] > RateLimitSweepAge)} |-> m[id]]

\* time.Now() advances.
ClockTick ==
  /\ clock < MaxClock
  /\ clock' = clock + 1
  /\ UNCHANGED <<oldVars, articleVars, refreshMu, lastFetch, rq, started>>

\* refresh.go:56-57: h.mu.Lock(); now := time.Now().
RefreshLock(h) ==
  /\ rq[h].pc = "idle" /\ refreshMu = "free"
  /\ \E id \in RefreshIDs :
       rq' = [rq EXCEPT ![h] = [pc |-> "locked", id |-> id, now |-> clock,
                                status |-> 0]]
  /\ refreshMu' = h
  /\ UNCHANGED <<oldVars, articleVars, clock, lastFetch, started>>

\* refresh.go:60-68: the sweep of a large map, then the look-up; a request
\* inside the window unlocks and answers 429.
RefreshCheck(h) ==
  /\ rq[h].pc = "locked"
  /\ LET swept == IF Cardinality(DOMAIN lastFetch) > RateLimitCapacity
                    THEN sweepLocked(lastFetch, rq[h].now) ELSE lastFetch
         id == rq[h].id
     IN /\ lastFetch' = swept
        /\ IF HasEntry(swept, id) /\ rq[h].now - swept[id] < RateLimitWindow
             THEN /\ rq' = [rq EXCEPT ![h].pc = "idle", ![h].status = 429]
                  /\ refreshMu' = "free"
             ELSE /\ rq' = [rq EXCEPT ![h].pc = "set"]
                  /\ UNCHANGED refreshMu
  /\ UNCHANGED <<oldVars, articleVars, clock, started>>

\* refresh.go:69-83: h.lastFetch[id] = now, unlock, answer 202 and start
\* doRefresh in the background.
RefreshAccept(h) ==
  /\ rq[h].pc = "set"
  /\ lastFetch' = [id \in DOMAIN lastFetch \cup {rq[h].id} |->
                     IF id = rq[h].id THEN rq[h].now ELSE lastFetch[id]]
  /\ refreshMu' = "free"
  /\ rq' = [rq EXCEPT ![h].pc = "idle", ![h].status = 202]
  /\ started' = [started EXCEPT ![rq[h].id] = Append(@, rq[h].now)]
  /\ UNCHANGED <<oldVars, articleVars, clock>>

NextRefresh ==
  \/ ClockTick
  \/ \E h \in Handlers : RefreshLock(h) \/ RefreshCheck(h) \/ RefreshAccept(h)

SpecRefresh == Init /\ [][NextRefresh]_vars

\* ------------------------------- FetchStoryWithComments, ExtractArticle
notArticleVars == <<oldVars, refreshVars>>

\* The tables as migrate creates them (db.go:48-78): story_id REFERENCES
\* stories(id) with no ON DELETE action, and foreign_keys(on) for every
\* connection (db.go:12).  An insert whose story is missing fails, and so does
\* the deletion of a story some row references.
Referenced(id) ==
  articles[id] # "none" \/ \E t \in ChildTables : id \in childRows[t]

\* Faulty variant of ShouldExtract: every item with a URL is extracted.
ShouldExtract_AnyURL(isNew, url) == url

\* part_015:170: if isNew && item.URL != "".
ShouldExtract(isNew, url) == isNew /\ url

\* Faulty variant of UpsertArticle: a failed extraction leaves the table as
\* it is.
UpsertArticle_FailureNotStored(arts, id, ext) ==
  IF ext = "ok" THEN [arts EXCEPT ![id] = "ok"] ELSE arts

\* UpsertArticle (articles.sql:1-7) with the parameters ExtractArticle gives
\* it: ExtractionFailed true after a failure, the content and false after a
\* success.
UpsertArticle(arts, id, ext) ==
  [arts EXCEPT ![id] = IF ext = "ok" THEN "ok" ELSE "failed"]

\* part_015:137-145: GetItem returned an item (for an error, a null item or
\* ID 0 the call returns at once); url tells whether it carries a URL.
FetchStoryWithCommentsGetItem(c) ==
  /\ c \in Fetchers /\ artCall[c].pc = "idle"
  /\ \E id \in ArtIDs, url \in BOOLEAN :
       artCall' = [artCall EXCEPT ![c] = [NoArtCall EXCEPT !.pc = "check",
                                            !.id = id, !.url = url]]
  /\ UNCHANGED <<notArticleVars, artStories, articles, childRows, lastDelete>>

\* part_015:149-152: isNew is set when GetStoryByID finds no row.
FetchStoryWithCommentsCheck(c) ==
  /\ artCall[c].pc = "check"
  /\ artCall' = [artCall EXCEPT ![c].isNew = artCall[c].id \notin artStories,
                                ![c].pc = "upsert"]
  /\ UNCHANGED <<notArticleVars, artStories, articles, childRows, lastDelete>>

\* part_015:154-174: UpsertStory (its error, as with a context that is done,
\* returns from the call), FetchComments for an item with kids (a failed
\* UpsertComment is logged), and the decision to extract.
FetchStoryWithCommentsUpsert(c) ==
  /\ artCall[c].pc = "upsert"
  /\ IF artCall[c].ctxDone
       THEN /\ artCall' = [artCall EXCEPT ![c] = NoArtCall]
            /\ UNCHANGED <<artStories, childRows>>
       ELSE /\ artStories' = artStories \cup {artCall[c].id}
            /\ \E kids \in BOOLEAN :
                 childRows' = IF kids
                   THEN [childRows EXCEPT !["comments"] = @ \cup {artCall[c].id}]
                   ELSE childRows
            /\ artCall' = [artCall EXCEPT ![c].pc =
                 IF ShouldExtract(artCall[c].isNew, artCall[c].url)
                   THEN "extract" ELSE "done"]
  /\ UNCHANGED <<notArticleVars, articles, lastDelete>>

\* part_015:179-180 and extract.go:48-90: readability.Extract succeeds or
\* fails; with a context that is done it fails.
ExtractArticleExtract(c) ==
  /\ artCall[c].pc = "extract"
  /\ \E ext \in IF artCall[c].ctxDone THEN {"fail"} ELSE {"ok", "fail"} :
       artCall' = [artCall EXCEPT ![c].ext = ext, ![c].pc = "store"]
  /\ UNCHANGED <<notArticleVars, artStories, articles, childRows, lastDelete>>

\* part_015:181-201: UpsertArticle with the call's context; the statement
\* fails when the context is done or the story has no row (foreign key), and
\* its error is dropped or logged.
ExtractArticleUpsert(c) ==
  /\ artCall[c].pc = "store"
  /\ articles' = IF ~artCall[c].ctxDone /\ artCall[c].id \in artStories
                   THEN UpsertArticle(articles, artCall[c].id, artCall[c].ext)
                   ELSE articles
  /\ artCall' = [artCall EXCEPT ![c].pc = "done"]
  /\ UNCHANGED <<notArticleVars, artStories, childRows, lastDelete>>

\* articles.go:32-69: GetArticle for a stored story with a URL serves the
\* articles row when there is one and extracts when there is none.
GetArticle(c) ==
  /\ c = "reader" /\ artCall[c].pc = "idle"
  /\ \E id \in artStories :
       artCall' = [artCall EXCEPT ![c] =
         [NoArtCall EXCEPT !.id = id, !.url = TRUE,
            !.pc = IF articles[id] # "none" THEN "done" ELSE "extract"]]
  /\ UNCHANGED <<notArticleVars, artStories, articles, childRows, lastDelete>>

\* The call returns.
ArtCallReturn(c) ==
  /\ artCall[c].pc = "done"
  /\ artCall' = [artCall EXCEPT ![c] = NoArtCall]
  /\ UNCHANGED <<notArticleVars, artStories, articles, childRows, lastDelete>>

\* The worker context is cancelled at shutdown, a request's context when the
\* client goes away; a refresh runs with context.Background().
ArtCtxDone(c) ==
  /\ c # "refresh" /\ artCall[c].pc \notin {"idle", "done"}
  /\ ~artCall[c].ctxDone
  /\ artCall' = [artCall EXCEPT ![c].ctxDone = TRUE]
  /\ UNCHANGED <<notArticleVars, artStories, articles, childRows, lastDelete>>

\* ranker.go:54-74: computePeriod replaces the rankings rows; InsertRanking
\* for a story without a row fails.
ReplaceRankings ==
  /\ \E S \in SUBSET artStories :
       /\ S # childRows["rankings"]
       /\ childRows' = [childRows EXCEPT !["rankings"] = S]
  /\ UNCHANGED <<notArticleVars, artStories, articles, artCall, lastDelete>>

\* cleaner.go:62-66 and stories.sql:61-62: the Cleaner's DELETE FROM stories
\* WHERE id = ?.  It fails with a store error, or because a row of comments,
\* articles or rankings references the story; else the row is deleted.
DeleteStory ==
  /\ \E id \in artStories, err \in BOOLEAN :
       LET result == IF err THEN "error"
                     ELSE IF Referenced(id) THEN "constraint" ELSE "deleted"
       IN /\ lastDelete' = [id |-> id, result |-> result]
          /\ artStories' = IF result = "deleted" THEN artStories \ {id}
                           ELSE artStories
  /\ UNCHANGED <<notArticleVars, articles, childRows, artCall>>

NextArticle ==
  \/ ReplaceRankings \/ DeleteStory
  \/ \E c \in ArtCallers :
       \/ FetchStoryWithCommentsGetItem(c) \/ FetchStoryWithCommentsCheck(c)
       \/ FetchStoryWithCommentsUpsert(c)
       \/ ExtractArticleExtract(c) \/ ExtractArticleUpsert(c)
       \/ GetArticle(c) \/ ArtCallReturn(c) \/ ArtCtxDone(c)

SpecArticle == Init /\ [][NextArticle]_vars

\* ------------------------------------------- Poller.Start, Cleaner.Start
\* The two background goroutines as their callers see them: which calls a
\* cycle makes, in which order, and what ends it.  A call is one step; a call
\* made with the context already cancelled fails (the HTTP client and
\* database/sql return ctx.Err()).
notLoopVars == <<serverVars, earlyVars, rankVars, scoreVars, pageVars, moreVars>>

\* Lines a cycle logs at error level (slog.Error), by the call that failed.
ErrorKinds == {"top", "item", "swap", "compute", "query", "delete"}

\* The goroutine has a timer or ticker whose channel can receive a tick: the
\* Cleaner's time.After(1h) from the start (cleaner.go:25), a loop's ticker
\* once its first cycle has returned (poller.go:44, cleaner.go:32).
TickerLive(l) ==
  \/ l = "cleaner" /\ loopPc[l] = "first"
  \/ loopPc[l] = "select"
  \/ cycles[l] >= 2 /\ loopPc[l] # "stopped"

\* An effectful call of loop l's cycle, and a step without one.
Effect(l, kind) ==
  /\ calls' = [calls EXCEPT ![l] = @ + 1]
  /\ lastCall' = [lastCall EXCEPT ![l] = kind]

NoEffect == UNCHANGED <<calls, lastCall>>

\* A cycle begins: nothing called yet.
CycleBegins(l) ==
  /\ cycles' = [cycles EXCEPT ![l] = @ + 1]
  /\ calls' = [calls EXCEPT ![l] = 0]
  /\ lastCall' = [lastCall EXCEPT ![l] = "none"]

\* Time passes: the timer or ticker fires.  The channel buffers one tick; a
\* tick that finds it full is dropped.
TickFires(l) ==
  /\ TickerLive(l) /\ ~tickReady[l] /\ cycles[l] < MaxCycles
  /\ tickReady' = [tickReady EXCEPT ![l] = TRUE]
  /\ UNCHANGED <<notLoopVars, loopPc, cycles, logged, pollN, pollI, pollOk,
                 sweepLeft, calls, lastCall>>

\* poller.go:43: the Poller's goroutine begins with a poll, before any select.
PollerStart ==
  /\ loopPc["poller"] = "start"
  /\ loopPc' = [loopPc EXCEPT !["poller"] = "top"]
  /\ CycleBegins("poller")
  /\ UNCHANGED <<notLoopVars, tickReady, logged, pollN, pollI, pollOk,
                 sweepLeft>>

\* The select's tick case (poller.go:51-52, cleaner.go:25-26 and 39-40): the
\* tick is received and a cycle is called.  When ctx.Done() is ready as well
\* the select picks one of the ready cases at random, so this case can be
\* taken after cancellation.
SelectTick(l) ==
  /\ loopPc[l] \in {"first", "select"} /\ tickReady[l]
  /\ tickReady' = [tickReady EXCEPT ![l] = FALSE]
  /\ CycleBegins(l)
  /\ loopPc' = [loopPc EXCEPT ![l] = IF l = "poller" THEN "top" ELSE "query"]
  /\ UNCHANGED <<notLoopVars, logged, pollN, pollI, pollOk, sweepLeft>>

\* The select's ctx.Done() case (poller.go:48-50, cleaner.go:27-29 and
\* 36-38): the goroutine returns.
SelectDone(l) ==
  /\ loopPc[l] \in {"first", "select"} /\ cancelled
  /\ loopPc' = [loopPc EXCEPT ![l] = "stopped"]
  /\ UNCHANGED <<notLoopVars, tickReady, cycles, logged, pollN, pollI, pollOk,
                 sweepLeft, calls, lastCall>>

\* Position after the iteration with index j-1 of a cycle over n IDs.
LoopAt(n, j) == LoopPc([x \in 1..n |-> x], j)

\* Positions of poll inside ComputeAll, one per computePeriod call
\* (ranker.go:28, 31, 34), and the position after the j-th call.
ComputePcs == <<"compute_day", "compute_yesterday", "compute_week">>

AfterPeriod(j) == IF j < Len(ComputePcs) THEN ComputePcs[j + 1] ELSE "publish"

\* Faulty variant of RunTopStories: the TopList is set before the error test.
RunTopStories_SetFirst ==
  /\ loopPc["poller"] = "top"
  /\ \/ /\ logged' = [logged EXCEPT !["poller"] = {"top"}]
        /\ loopPc' = [loopPc EXCEPT !["poller"] = "select"]
        /\ Effect("poller", "set")
        /\ UNCHANGED <<pollN, pollI, pollOk>>
     \/ /\ ~cancelled
        /\ \E n \in 0..MaxLoopItems :
             /\ pollN' = n
             /\ loopPc' = [loopPc EXCEPT !["poller"] = LoopAt(n, 0)]
        /\ pollI' = 0 /\ pollOk' = 0
        /\ logged' = [logged EXCEPT !["poller"] = {}]
        /\ Effect("poller", "set")
  /\ UNCHANGED <<notLoopVars, tickReady, cycles, sweepLeft>>

\* poller.go:62-70: TopStories fails, which is logged and ends the cycle, or
\* it returns n IDs, which are set as the TopList.
RunTopStories ==
  /\ loopPc["poller"] = "top"
  /\ \/ /\ logged' = [logged EXCEPT !["poller"] = {"top"}]
        /\ loopPc' = [loopPc EXCEPT !["poller"] = "select"]
        /\ UNCHANGED <<pollN, pollI, pollOk>> /\ NoEffect
     \/ /\ ~cancelled
        /\ \E n \in 0..MaxLoopItems :
             /\ pollN' = n
             /\ loopPc' = [loopPc EXCEPT !["poller"] = LoopAt(n, 0)]
        /\ pollI' = 0 /\ pollOk' = 0
        /\ logged' = [logged EXCEPT !["poller"] = {}]
        /\ Effect("poller", "set")
  /\ UNCHANGED <<notLoopVars, tickReady, cycles, sweepLeft>>

\* One item fetch of a loop iteration (poller.go:87-93, 102-108): the call is
\* made; an error is logged, a nil result counts the item as updated.
RunFetch ==
  /\ Effect("poller", "fetch")
  /\ pollI' = pollI + 1
  /\ loopPc' = [loopPc EXCEPT !["poller"] = LoopAt(pollN, pollI + 1)]
  /\ \/ /\ pollOk' = pollOk + 1
        /\ UNCHANGED logged
     \/ /\ logged' = [logged EXCEPT !["poller"] = @ \cup {"item"}]
        /\ UNCHANGED pollOk

\* Faulty variant of RunEager: the loop does not test ctx.Err().
RunEager_NoCheck ==
  /\ loopPc["poller"] = "eager"
  /\ RunFetch
  /\ UNCHANGED <<notLoopVars, tickReady, cycles, pollN, sweepLeft>>

\* poller.go:82-94: an iteration of the eager loop; a cancelled context makes
\* poll log and return.
RunEager ==
  /\ loopPc["poller"] = "eager"
  /\ IF cancelled
       THEN /\ loopPc' = [loopPc EXCEPT !["poller"] = "select"]
            /\ logged' = [logged EXCEPT !["poller"] = @ \cup {"cancelled"}]
            /\ pollN' = 0 /\ pollI' = 0 /\ pollOk' = 0
            /\ NoEffect
       ELSE RunFetch /\ UNCHANGED pollN
  /\ UNCHANGED <<notLoopVars, tickReady, cycles, sweepLeft>>

\* poller.go:97-109: an iteration of the lazy loop; a cancelled context makes
\* poll log and break, so the cycle goes on with the swap.
RunLazy ==
  /\ loopPc["poller"] = "lazy"
  /\ IF cancelled
       THEN /\ loopPc' = [loopPc EXCEPT !["poller"] = "swap"]
            /\ logged' = [logged EXCEPT !["poller"] = @ \cup {"cancelled"}]
            /\ UNCHANGED <<pollI, pollOk>> /\ NoEffect
       ELSE RunFetch
  /\ UNCHANGED <<notLoopVars, tickReady, cycles, pollN, sweepLeft>>

\* poller.go:112-118: below the floor the swap is skipped; otherwise
\* SwapRanks commits or fails, and a failure is logged.
RunSwapRanks ==
  /\ loopPc["poller"] = "swap"
  /\ \/ /\ pollOk < MinRankPairs
        /\ UNCHANGED logged /\ NoEffect
     \/ /\ pollOk >= MinRankPairs /\ ~cancelled
        /\ Effect("poller", "swap")
        /\ UNCHANGED logged
     \/ /\ pollOk >= MinRankPairs
        /\ logged' = [logged EXCEPT !["poller"] = @ \cup {"swap"}]
        /\ NoEffect
  /\ loopPc' = [loopPc EXCEPT !["poller"] = ComputePcs[1]]
  /\ UNCHANGED <<notLoopVars, tickReady, cycles, pollN, pollI, pollOk, sweepLeft>>

\* Faulty variant of RunComputeAll: a failed computePeriod returns from
\* ComputeAll.
RunComputeAll_FailReturns ==
  /\ \E j \in 1..Len(ComputePcs) :
       /\ loopPc["poller"] = ComputePcs[j]
       /\ \/ /\ ~cancelled
             /\ Effect("poller", "compute")
             /\ UNCHANGED logged
             /\ loopPc' = [loopPc EXCEPT !["poller"] = AfterPeriod(j)]
          \/ /\ logged' = [logged EXCEPT !["poller"] = @ \cup {"compute"}]
             /\ NoEffect
             /\ loopPc' = [loopPc EXCEPT !["poller"] = "publish"]
  /\ UNCHANGED <<notLoopVars, tickReady, cycles, pollN, pollI, pollOk, sweepLeft>>

\* poller.go:121, ranker.go:23-36: ComputeAll calls computePeriod for "day",
\* "yesterday" and "week" in turn; a call replaces the rows of its period, or
\* it fails, which is logged there, and returns; ComputeAll goes on with the
\* next period either way.
RunComputeAll ==
  /\ \E j \in 1..Len(ComputePcs) :
       /\ loopPc["poller"] = ComputePcs[j]
       /\ loopPc' = [loopPc EXCEPT !["poller"] = AfterPeriod(j)]
  /\ \/ /\ ~cancelled
        /\ Effect("poller", "compute")
        /\ UNCHANGED logged
     \/ /\ logged' = [logged EXCEPT !["poller"] = @ \cup {"compute"}]
        /\ NoEffect
  /\ UNCHANGED <<notLoopVars, tickReady, cycles, pollN, pollI, pollOk, sweepLeft>>

\* poller.go:127-134: Publish when an item was updated; poll returns.
RunPublish ==
  /\ loopPc["poller"] = "publish"
  /\ IF pollOk > 0 THEN Effect("poller", "publish") ELSE NoEffect
  /\ loopPc' = [loopPc EXCEPT !["poller"] = "select"]
  /\ pollN' = 0 /\ pollI' = 0 /\ pollOk' = 0
  /\ UNCHANGED <<notLoopVars, tickReady, cycles, logged, sweepLeft>>

\* cleaner.go:49-54: the candidate query fails, which is logged and ends the
\* sweep, or it returns n IDs.
RunOldOffPageStoryIDs ==
  /\ loopPc["cleaner"] = "query"
  /\ \/ /\ logged' = [logged EXCEPT !["cleaner"] = {"query"}]
        /\ loopPc' = [loopPc EXCEPT !["cleaner"] = "select"]
        /\ UNCHANGED sweepLeft
     \/ /\ ~cancelled
        /\ \E n \in 0..MaxLoopItems : sweepLeft' = n
        /\ logged' = [logged EXCEPT !["cleaner"] = {}]
        /\ loopPc' = [loopPc EXCEPT !["cleaner"] = "delete"]
  /\ UNCHANGED <<notLoopVars, tickReady, cycles, pollN, pollI, pollOk, calls, lastCall>>

\* Faulty variant of RunDelete: a failed deletion ends the goroutine.
RunDelete_FailStops ==
  /\ loopPc["cleaner"] = "delete"
  /\ IF sweepLeft = 0 \/ cancelled
       THEN /\ loopPc' = [loopPc EXCEPT !["cleaner"] = "select"]
            /\ logged' = [logged EXCEPT !["cleaner"] =
                            IF sweepLeft > 0 THEN @ \cup {"cancelled"} ELSE @]
            /\ sweepLeft' = 0
            /\ NoEffect
       ELSE /\ sweepLeft' = sweepLeft - 1
            /\ \/ /\ Effect("cleaner", "delete")
                  /\ UNCHANGED <<logged, loopPc>>
               \/ /\ logged' = [logged EXCEPT !["cleaner"] = @ \cup {"delete"}]
                  /\ loopPc' = [loopPc EXCEPT !["cleaner"] = "stopped"]
                  /\ NoEffect
  /\ UNCHANGED <<notLoopVars, tickReady, cycles, pollN, pollI, pollOk>>

\* cleaner.go:57-77: an iteration of the deletion loop: at the end of the
\* list, or with a cancelled context (logged), the sweep finishes (VACUUM
\* after deletions) and returns; otherwise DeleteStory is called, and a
\* failure is logged and skipped.
RunDelete ==
  /\ loopPc["cleaner"] = "delete"
  /\ IF sweepLeft = 0 \/ cancelled
       THEN /\ loopPc' = [loopPc EXCEPT !["cleaner"] = "select"]
            /\ logged' = [logged EXCEPT !["cleaner"] =
                            IF sweepLeft > 0 THEN @ \cup {"cancelled"} ELSE @]
            /\ sweepLeft' = 0
            /\ NoEffect
       ELSE /\ sweepLeft' = sweepLeft - 1
            /\ \/ /\ Effect("cleaner", "delete")
                  /\ UNCHANGED logged
               \/ /\ logged' = [logged EXCEPT !["cleaner"] = @ \cup {"delete"}]
                  /\ NoEffect
            /\ UNCHANGED loopPc
  /\ UNCHANGED <<notLoopVars, tickReady, cycles, pollN, pollI, pollOk>>

\* The steps of a loop's own goroutine.
LoopStep(l) ==
  \/ SelectTick(l) \/ SelectDone(l)
  \/ /\ l = "poller"
     /\ \/ PollerStart \/ RunTopStories \/ RunEager \/ RunLazy
        \/ RunSwapRanks \/ RunComputeAll \/ RunPublish
  \/ /\ l = "cleaner"
     /\ (RunOldOffPageStoryIDs \/ RunDelete)

NextLoop ==
  \/ Cancel
  \/ \E l \in Loops : TickFires(l)
  \/ \E l \in Loops : LoopStep(l)

SpecLoop == Init /\ [][NextLoop]_vars

\* The Go scheduler runs every runnable goroutine, and every call a cycle
\* makes returns (requests and statements are bounded by timeouts and by the
\* context): a loop that can take a step eventually takes one.  Ticks and the
\* cancellation are events of the environment and carry no fairness.
FairLoop == SpecLoop /\ \A l \in Loops : WF_vars(LoopStep(l))

\* =================================================================== claims
PairIDs(pairs) == [j \in 1..Len(pairs) |-> pairs[j].ID]

RankedIDs(st, rk) == {id \in st : rk[id] # NoRank}

\* The ranks a swap of pairs is to leave in a store holding the rows st.
SwapResult(st, pairs) ==
  [id \in StoryIDs |->
     IF id \in st /\ \E j \in 1..Len(pairs) : pairs[j].ID = id
       THEN (CHOOSE r \in 1..MaxID : \E j \in 1..Len(pairs) :
               pairs[j].ID = id /\ pairs[j].Rank = r)
       ELSE NoRank]

\* The step on which SwapRanks commits.
SwapCommitted == pollPc = "swap_commit" /\ pollPc' = "compute" /\ swapped'

\* C1 as stated: when the swap of a cycle with at least MinRankPairs recorded
\* pairs commits, ListStoriesByRank returns exactly the recorded IDs in
\* position order and no other item has a rank.
C1_ListIsRecordedIDs ==
  [][(SwapCommitted /\ Len(rankPairs) >= MinRankPairs) =>
       /\ ListStoriesByRank(stories', rank', MaxID, 0) = PairIDs(rankPairs)
       /\ \A id \in StoryIDs \ Range(PairIDs(rankPairs)) : rank'[id] = NoRank]_vars

\* C1 amended: when that swap commits, ListStoriesByRank returns exactly the
\* recorded IDs that have a row in the store, in position order, and no item
\* outside the recorded set has a rank.
C1_ListIsStoredRecordedIDs ==
  [][(SwapCommitted /\ Len(rankPairs) >= MinRankPairs) =>
       /\ ListStoriesByRank(stories', rank', MaxID, 0)
            = SelectSeq(PairIDs(rankPairs), LAMBDA id : id \in stories')
       /\ \A id \in StoryIDs \ Range(PairIDs(rankPairs)) : rank'[id] = NoRank]_vars

\* C1 witness: a swap has committed with a recorded ID that has no row (its
\* upstream record was absent) next to recorded IDs that got their ranks.
C1_Witness ==
  /\ pollPc = "compute" /\ swapped /\ Len(rankPairs) >= MinRankPairs
  /\ \E j \in 1..Len(rankPairs) : rankPairs[j].ID \notin stories
  /\ \E j \in 1..Len(rankPairs) :
       /\ rankPairs[j].ID \in stories
       /\ rank[rankPairs[j].ID] = rankPairs[j].Rank

\* C2: while a poll cycle has recorded fewer than MinRankPairs pairs, no step
\* of the Poller changes any item's rank or opens a swap transaction; such a
\* cycle reaches its end with the ranks it found.
C2_NoSwapBelowFloor ==
  [][((pollVars' # pollVars \/ txVars' # txVars)
        /\ Len(rankPairs) < MinRankPairs) =>
       (rank' = rank /\ txState' = "none")]_vars

\* C2 witness: a cycle that recorded too few pairs is past Phase 2 without a
\* swap, and the ranks of an earlier cycle are still there.
C2_Witness ==
  /\ pollPc = "compute" /\ ~swapped /\ Len(rankPairs) < MinRankPairs
  /\ RankedIDs(stories, rank) # {}

\* C3: every step of SwapRanks leaves the committed ranks, which are what a
\* concurrent reader sees, exactly as they were, except the commit, which
\* replaces them by the complete new assignment; a failed clear, set-rank or
\* commit therefore leaves every rank as before the call.
C3_SwapAllOrNothing ==
  [][((pollPc \in SwapPcs \cup {"swap"}) /\ <<pollPc, txVars>>' # <<pollPc, txVars>>) =>
       \/ rank' = rank
       \/ SwapCommitted /\ rank' = SwapResult(stories, rankPairs)]_vars

\* C3 witness: the transaction has cleared the ranks and set only part of the
\* new ones, while the committed ranks of the previous cycle are in place.
C3_Witness ==
  /\ txState = "locked" /\ pollPc = "swap_set" /\ k > 1
  /\ RankedIDs(stories, rank) # {}
  /\ txRank # rank

\* C4 as stated: in every state the ranked items are among the IDs of TopList.
C4_RankedWithinTopList == RankedIDs(stories, rank) \subseteq Range(topList)

\* C4 amended: from the commit of a cycle's rank swap until the next cycle
\* replaces TopList, the ranked items are among the IDs of TopList.
C4_RankedWithinTopListAfterSwap ==
  swapped => RankedIDs(stories, rank) \subseteq Range(topList)

\* C4 witness: a cycle has swapped and returned; items are ranked.
C4_Witness ==
  /\ swapped /\ pollPc = "idle" /\ RankedIDs(stories, rank) # {}

\* The event a Publish step has just stored.
Published == ring'[Len(ring')]

\* C5: the first event published gets ID 1, and every event published gets
\* an ID greater than that of every event published before it, whichever
\* publisher's call it is.
C5_EventIDsIncrease ==
  [][ring' # ring =>
       /\ (ring = <<>> => Published = 1)
       /\ \A j \in 1..Len(ring) : ring[j] < Published
       /\ \A p \in Publishers : pubPc[p] = "send" => pubEvt[p] < Published
       /\ \A c \in Conns : \A j \in 1..Len(chans[c]) : chans[c][j] < Published]_vars

\* C5 witness: both publishers are inside Publish at once, each with its event.
C5_Witness ==
  /\ \A p \in Publishers : pubPc[p] = "send"
  /\ pubEvt["poller"] # pubEvt["refresh"]

\* C6: the ring holds exactly the min(published, RingSize) latest events in
\* ascending ID order, where nextID - 1 events have been published.
C6_RingHoldsLatest ==
  LET published == nextID - 1
      n == IF published < RingSize THEN published ELSE RingSize
  IN /\ Len(ring) = n
     /\ \A j \in 1..n : ring[j] = published - n + j

\* C6 witness: IDs 1, 2, 3, 4 were published into a ring of three.
C6_Witness == nextID = 5 /\ ring = <<2, 3, 4>>

\* The step on which connection c gets its answer from eventsAfter.
Replayed(c) ==
  connPc[c] = "new" /\ connPc'[c] = "replayed" /\ connReplay'[c].has

\* C7: on a non-empty ring eventsAfter(lastID) is not ok exactly when
\* lastID < oldest.ID - 1; on an empty ring it returns no events and ok.
C7_NotOkIffTooOld ==
  [][\A c \in Conns : Replayed(c) =>
       IF ring = <<>>
         THEN connReplay'[c].ok /\ connReplay'[c].events = <<>>
         ELSE (~connReplay'[c].ok) <=> (connReplay'[c].lastID < ring[1] - 1)]_vars

\* C7 witness: with IDs 1..4 published into a ring of three, one client asked
\* with lastID 1 and got 2, 3, 4, another asked with lastID 0 and got not ok.
C7_Witness ==
  /\ connReplay["c1"] = [has |-> TRUE, lastID |-> 1, events |-> <<2, 3, 4>>, ok |-> TRUE]
  /\ connReplay["c2"] = [has |-> TRUE, lastID |-> 0, events |-> <<>>, ok |-> FALSE]

\* C8 as stated: eventsAfter called with the ID just before the oldest
\* buffered event is not ok.
C8_JustBeforeOldestNotOk ==
  [][\A c \in Conns :
       (Replayed(c) /\ ring # <<>> /\ connReplay'[c].lastID = ring[1] - 1) =>
         ~connReplay'[c].ok]_vars

\* C8 amended: eventsAfter called with the ID just before the oldest buffered
\* event is ok and returns the whole buffer; with an ID below that it is not
\* ok and returns nothing.
C8_JustBeforeOldestOk ==
  [][\A c \in Conns : (Replayed(c) /\ ring # <<>>) =>
       /\ connReplay'[c].lastID = ring[1] - 1 =>
            (connReplay'[c].ok /\ connReplay'[c].events = ring)
       /\ connReplay'[c].lastID < ring[1] - 1 =>
            (~connReplay'[c].ok /\ connReplay'[c].events = <<>>)]_vars

\* C8 witness: events were evicted, and a client that asked with the ID just
\* before the oldest buffered one holds the full buffer.
C8_Witness ==
  \E c \in Conns :
    /\ connPc[c] = "replayed" /\ connReplay[c].has /\ connReplay[c].ok
    /\ Len(connReplay[c].events) = RingSize
    /\ connReplay[c].lastID >= 1
    /\ connReplay[c].events[1] = connReplay[c].lastID + 1

\* C9: an ok answer of eventsAfter(lastID) is the buffered events with
\* ID > lastID in buffer order, ascending, and its IDs are all the IDs ever
\* published that exceed lastID.
C9_OkReplayIsComplete ==
  [][\A c \in Conns : (Replayed(c) /\ connReplay'[c].ok) =>
       LET ev == connReplay'[c].events
           last == connReplay'[c].lastID
       IN /\ ev = SelectSeq(ring, LAMBDA e : e > last)
          /\ \A a, b \in 1..Len(ev) : a < b => ev[a] < ev[b]
          /\ Range(ev) = {n \in 1..(nextID - 1) : n > last}]_vars

\* C9 witness: after an eviction a client within range got the proper subset.
C9_Witness ==
  \E c \in Conns :
    /\ connPc[c] = "replayed" /\ connReplay[c].has /\ connReplay[c].ok
    /\ ring # <<>> /\ ring[1] > 1
    /\ connReplay[c].lastID >= ring[1]
    /\ connReplay[c].events # <<>>

\* C10: a Publish call that still has an open subscriber of its snapshot to
\* serve, one with room or one that is full and to be skipped, goes on to
\* complete: it has not ended without serving it.
C10_PublishCompletes ==
  \A p \in Publishers :
    (\E ch \in pubSubs[p] : ch \notin closed) => pubPc[p] # "panicked"

\* C11: the event IDs buffered in a subscriber's channel, which are delivered
\* in this order, are strictly increasing, whichever publishers' calls
\* interleave.
C11_DeliveryInPublishOrder ==
  \A c \in Conns : \A a, b \in 1..Len(chans[c]) : a < b => chans[c][a] < chans[c][b]

\* What ServeHTTP writes for the answer rep of eventsAfter before it
\* subscribes: nothing without a parsable Last-Event-ID, one sync_required
\* event with data {} when the answer is not ok, else each event's Format().
\* The id of sync_required is b.nextID-1, here n.
WireEvent(e) == [event |-> "published", id |-> e, data |-> "opaque"]

SyncRequired(n) == [event |-> "sync_required", id |-> n, data |-> "{}"]

ReplayWritten(rep, n) ==
  IF ~rep.has THEN <<>>
  ELSE IF ~rep.ok THEN <<SyncRequired(n)>>
  ELSE [j \in 1..Len(rep.events) |-> WireEvent(rep.events[j])]

\* C12: a connection with a parsable Last-Event-ID L is written, while it is
\* not yet a subscriber, either every buffered event with ID > L in ascending
\* order (eventsAfter ok) or exactly one sync_required event with data {}
\* (not ok); a connection without one is written nothing; and a connection
\* joins the subscribers only after that step.
C12_ReplayThenSubscribe ==
  [][\A c \in Conns :
       /\ (connPc[c] = "new" /\ connPc'[c] = "replayed") =>
            LET rep == connReplay'[c]
                out == ReplayWritten(rep, nextID - 1)
            IN /\ c \notin subscribers'
               /\ ~rep.has => out = <<>>
               /\ (rep.has /\ eventsAfter(ring, rep.lastID).ok) =>
                    /\ Len(out) = Cardinality({e \in Range(ring) : e > rep.lastID})
                    /\ \A j \in 1..Len(out) :
                         /\ out[j].event # "sync_required"
                         /\ out[j].id \in Range(ring) /\ out[j].id > rep.lastID
                         /\ \A h \in 1..(j - 1) : out[h].id < out[j].id
               /\ (rep.has /\ ~eventsAfter(ring, rep.lastID).ok) =>
                    /\ Len(out) = 1
                    /\ out[1].event = "sync_required" /\ out[1].data = "{}"
       /\ (c \in subscribers' /\ c \notin subscribers) => connPc[c] = "replayed"]_vars

\* C12 witness: one connection has been sent sync_required and is not yet
\* subscribed, while the other, which was replayed events, is live.
C12_Witness ==
  /\ connPc["c1"] = "replayed" /\ connReplay["c1"].has /\ ~connReplay["c1"].ok
  /\ "c1" \notin subscribers
  /\ ReplayWritten(connReplay["c1"], nextID - 1) = <<SyncRequired(nextID - 1)>>
  /\ connPc["c2"] = "live" /\ "c2" \in subscribers

\* C13: the subscriber set is the set of channels of the connections between
\* subscribe and unsubscribe, and no Publish has sent on a closed channel.
C13_UnsubscribeSafe ==
  /\ subscribers = {c \in Conns : connPc[c] = "live"}
  /\ \A p \in Publishers : pubPc[p] # "panicked"

\* The callers inside Group.Do for the flight fkey that have not been released.
InDo(fkey) == {c \in SfCallers : sfKey[c] = fkey /\ sfPc[c] \in {"exec", "wait"}}

\* C14: the callers that are inside a singleflight call for one key at the
\* same time share one underlying execution: exactly one of them runs the
\* upstream operation, the others wait for it.
C14_OneExecutionPerFlight ==
  \A kind \in SfKinds, id \in SfIDs :
    LET f == SfKeyOf(kind, id) IN
    InDo(f) # {} => Cardinality({c \in InDo(f) : sfPc[c] = "exec"}) = 1

\* C14 witness: two callers are inside FetchStorySingleflight for one ID, one
\* executing and one waiting.
C14_Witness ==
  /\ sfKey["h1"] = SfKeyOf("story", 1) /\ sfKey["h2"] = SfKeyOf("story", 1)
  /\ {sfPc["h1"], sfPc["h2"]} = {"exec", "wait"}

\* C15: when the one execution of a flight returns, every caller coalesced
\* into it, for each of the three guarded fetches, is released with the
\* error (or nil) that execution returned.
C15_CoalescedSameOutcome ==
  [][\A c \in SfCallers : (sfPc[c] = "exec" /\ sfPc'[c] = "ret") =>
       \A d \in InDo(sfKey[c]) :
         sfPc'[d] = "ret" /\ sfErr'[d] = sfErr'[c] /\ sfErr'[c] \in FetchErrs]_vars

\* C15 witness: three callers of one comment fetch have been released
\* together with an error.
C15_Witness ==
  \A c \in SfCallers :
    sfKey[c] = SfKeyOf("comments", 1) /\ sfPc[c] = "ret" /\ sfErr[c] = "error"

\* C16: the number of upstream requests outstanding at once, over TopStories,
\* GetItem and the goroutines of GetItems, never exceeds the permit pool size.
C16_OutstandingWithinPool == Cardinality(Holders(clPc)) <= PoolSize

\* C16 witness: every permit is taken while a batch started by GetItems and
\* another caller wait in acquire.
C16_Witness ==
  /\ Cardinality(Holders(clPc)) = PoolSize
  /\ Cardinality({g \in Requesters : clPc[g] = "acquire" /\ clOp[g] = "GetItems"}) >= 2
  /\ \E g \in Requesters : clPc[g] = "request" /\ clOp[g] = "TopStories"

\* The comments in a returned tree: the roots and everything below them.
RECURSIVE Under(_, _)
Under(list, ch) ==
  IF list = <<>> THEN {}
  ELSE {Head(list)} \cup Under(ch[Head(list)], ch) \cup Under(Tail(list), ch)

TreeNodes(t) == Under(t.roots, t.children)

CountIn(list, x) == Cardinality({j \in 1..Len(list) : list[j] = x})

RECURSIVE SumOver(_, _, _)
SumOver(S, t, x) ==
  IF S = {} THEN 0
  ELSE LET n == CHOOSE m \in S : TRUE
       IN CountIn(t.children[n], x) + SumOver(S \ {n}, t, x)

\* How often comment x occurs in the tree, as a root or as somebody's child.
Occurrences(t, x) == CountIn(t.roots, x) + SumOver(TreeNodes(t), t, x)

\* A row without a parent in the row set: parent_id NULL or not among the rows.
Orphan(rows, c) == rows[c].parent = NoParent \/ ~rows[rows[c].parent].present

\* The rows above c: its parent, the parent's parent, ... as far as rows exist.
RECURSIVE Ancestors(_, _)
Ancestors(rows, c) ==
  IF Orphan(rows, c) THEN {}
  ELSE {rows[c].parent} \cup Ancestors(rows, rows[c].parent)

\* C17: in the tree GetCommentTree returns for the stored rows, a row whose
\* parent_id is NULL or names no row of the set stands at the root level
\* wherever it appears, and every non-deleted row appears exactly once: as a
\* root when it has no parent in the set, else as a child of its parent.
C17_OrphansAreRootsNoneDropped ==
  tree.read =>
    \A c \in CommentIDs : treeRows[c].present =>
      /\ (Orphan(treeRows, c) /\ c \in TreeNodes(tree)) =>
            (CountIn(tree.roots, c) = 1 /\ Occurrences(tree, c) = 1)
      /\ ~treeRows[c].deleted =>
            /\ Occurrences(tree, c) = 1
            /\ IF Orphan(treeRows, c)
                 THEN CountIn(tree.roots, c) = 1
                 ELSE /\ treeRows[c].parent \in TreeNodes(tree)
                      /\ CountIn(tree.children[treeRows[c].parent], c) = 1

\* C17 witness: a tree was returned in which a comment whose parent is not
\* stored is a root and has a child of its own.
C17_Witness ==
  /\ tree.read
  /\ \E c \in CommentIDs :
       /\ treeRows[c].present /\ treeRows[c].parent # NoParent
       /\ ~treeRows[treeRows[c].parent].present
       /\ CountIn(tree.roots, c) = 1
       /\ tree.children[c] # <<>>

\* C18: in the returned tree a deleted comment is present exactly when a
\* descendant of it remains after pruning, which is exactly when it has a
\* non-deleted descendant among the rows; no non-deleted comment is missing.
C18_DeletedKeptIffDescendant ==
  tree.read =>
    \A c \in CommentIDs : treeRows[c].present =>
      IF treeRows[c].deleted
        THEN /\ (c \in TreeNodes(tree)) <=> (tree.children[c] # <<>>)
             /\ (c \in TreeNodes(tree)) <=>
                  (\E d \in CommentIDs :
                     /\ treeRows[d].present /\ ~treeRows[d].deleted
                     /\ c \in Ancestors(treeRows, d))
        ELSE c \in TreeNodes(tree)

\* C18 witness: of two deleted comments one is kept as a placeholder above a
\* live reply and the other, childless, is gone from the returned tree.
C18_Witness ==
  /\ tree.read
  /\ \E c, d \in CommentIDs :
       /\ treeRows[c].present /\ treeRows[c].deleted /\ c \in TreeNodes(tree)
       /\ treeRows[d].present /\ treeRows[d].deleted /\ d \notin TreeNodes(tree)

\* The step on which FetchStory writes a record whose contents the row
\* already has: the second of two calls with identical upstream data.
SecondFetch ==
  /\ fs.pc = "got" /\ fs'.pc = "idle" /\ fs.item # NullItem
  /\ storyRow[fs.id].present /\ storyRow[fs.id].data = fs.item

\* C19 as stated: a FetchStory call that finds the row holding the same
\* upstream data leaves the store exactly as it was.
C19_SecondFetchChangesNothing == [][SecondFetch => storyRow' = storyRow]_vars

\* C19 amended: such a call leaves every row and every column as it was,
\* except the row's fetched_at, which becomes the time of this call.
C19_SecondFetchChangesFetchedAtOnly ==
  [][SecondFetch =>
       storyRow' = [storyRow EXCEPT ![fs.id].fetched_at = now]]_vars

\* C19 witness: a ranked row fetched earlier is being fetched again with the
\* same upstream data at a later second.
C19_Witness ==
  /\ fs.pc = "got" /\ fs.item # NullItem
  /\ storyRow[fs.id].present /\ storyRow[fs.id].data = fs.item
  /\ storyRow[fs.id].fetched_at < now
  /\ storyRow[fs.id].rank # NoRank

\* The comment IDs a walk from kids reaches upstream: kids, and the Kids of
\* every reached comment that is available.
RECURSIVE ReachFrom(_, _, _)
ReachFrom(R, avail, n) ==
  IF n = 0 THEN R
  ELSE ReachFrom(R \cup UNION {Range(UpKids[c]) : c \in R \cap avail}, avail, n - 1)

\* The step on which FetchComments runs.
Walked == cm.pc = "idle" /\ cm'.pc = "walked"

C21_ListPublishedBeforeFetch ==
  pollPc \in {"eager", "lazy"} =>
    /\ topList = topIDs
    /\ \A pg \in Pages, ps \in PageSizes :
         TopListPage(topList, pg, ps) = TopListPage(topIDs, pg, ps)

\* A second cycle is fetching items: its list, different from the one the
\* first cycle worked with, is what the TopList holds.
C21_Witness ==
  /\ pollPc \in {"eager", "lazy"} /\ i = 0 /\ nextID > 1
  /\ topList = Desc /\ \E id \in stories : rank[id] = id /\ id # Desc[id]

\* C23: a poll cycle that reaches its end publishes one stories_updated event
\* when an item was processed without error and none otherwise; the event
\* carries exactly the IDs recorded for the fetches that returned nil, in
\* list order, and it is published after the rank swap and ComputeAll.
C23_OneEventAfterSwapAndCompute ==
  [][/\ (nextID' # nextID =>
           /\ pollPc = "publish" /\ pollPc' = "sending"
           /\ updatedIDs # <<>> /\ eventData' = updatedIDs
           /\ updatedIDs = PairIDs(rankPairs)
           /\ nextID' = nextID + 1 /\ ring'[Len(ring')] = nextID
           /\ txState = "none")
     /\ (pollPc = "publish" /\ pollPc' # "publish" =>
           (updatedIDs # <<>> <=> nextID' # nextID))
     /\ (pollPc = "sending" => nextID' = nextID)
     /\ (pollPc' = "publish" /\ pollPc # "publish" => pollPc = "compute")
     /\ (pollPc' = "compute" /\ pollPc # "compute" =>
           pollPc \in SwapPcs \cup {"swap"})
     /\ (i' = i + 1 =>
           /\ updatedIDs' \in {updatedIDs, Append(updatedIDs, topIDs[i + 1])}
           /\ (stories' # stories => updatedIDs' # updatedIDs))
    ]_vars

\* The event of a cycle in which the swap committed and one fetch failed has
\* been handed to Publish: it carries the other IDs.
C23_Witness ==
  /\ pollPc = "sending" /\ swapped /\ eventData = updatedIDs
  /\ Len(updatedIDs) >= MinRankPairs /\ Len(updatedIDs) < Len(topIDs)
  /\ ring # <<>> /\ ring[Len(ring)] = nextID - 1

\* C27: every story row the Cleaner deletes has a null rank at the moment of
\* its deletion, also while poll cycles run beside the sweep.
C27_DeletedUnranked ==
  [][\A id \in stories \ stories' : rank[id] = NoRank]_vars

\* Errors the loop's cycle at hand has logged.
Errors(l) == logged[l] \cap ErrorKinds

InCycle(l) == loopPc[l] \notin {"start", "first", "select", "stopped"}

AllStopped == \A l \in Loops : loopPc[l] = "stopped"

\* C22: a poll cycle whose top-list fetch fails logs the failure and returns
\* having made no effectful call (no TopList.Set, item fetch, SwapRanks,
\* ComputeAll, Publish); the loop then waits in its select, where the next
\* tick starts the next cycle.
C22_FailedTopFetchNoEffect ==
  /\ [][loopPc["poller"] = "top" /\ loopPc'["poller"] = "select" =>
          /\ calls'["poller"] = 0 /\ lastCall'["poller"] = "none"
          /\ logged'["poller"] = {"top"}
          /\ UNCHANGED <<calls, lastCall>>
       ]_vars
  /\ [](loopPc["poller"] = "select" /\ logged["poller"] = {"top"}
          /\ tickReady["poller"]
        => ENABLED SelectTick("poller"))

\* The first cycle failed at its top-list fetch; the second one, started by
\* the next tick, is about to fetch the list.
C22_Witness ==
  /\ loopPc["poller"] = "top" /\ cycles["poller"] = 2 /\ ~cancelled
  /\ logged["poller"] = {"top"}
  /\ calls["poller"] = 0

\* No item fetch and no deletion is started once the context is cancelled.
NoNewWork ==
  \A l \in Loops :
    calls'[l] # calls[l] => lastCall'[l] \notin {"fetch", "delete"}

\* C28 as stated: after cancellation both loops eventually stop; from the
\* signal on no item fetch and no deletion is started and no cycle starts.
C28_NoCycleAfterCancel ==
  /\ cancelled ~> AllStopped
  /\ [][cancelled => NoNewWork /\ cycles' = cycles]_vars

\* C28: after cancellation both loops eventually stop; from the signal on no
\* item fetch and no deletion is started, and a cycle that is standing at or
\* is started at its first call (the select can take a waiting tick although
\* the context is done) ends at that call without an effectful call.
C28_NoWorkAfterCancel ==
  /\ cancelled ~> AllStopped
  /\ [][cancelled =>
          /\ NoNewWork
          /\ \A l \in Loops :
               loopPc[l] \in {"top", "query"} /\ loopPc'[l] # loopPc[l] =>
                 /\ loopPc'[l] = "select"
                 /\ calls'[l] = 0 /\ lastCall'[l] = "none"
       ]_vars

\* Both goroutines have returned after cancellation cut short a poll cycle
\* in the eager loop and a sweep before its last candidate.
C28_Witness ==
  /\ cancelled /\ AllStopped
  /\ \A l \in Loops : "cancelled" \in logged[l]
  /\ lastCall["poller"] = "fetch" /\ lastCall["cleaner"] = "delete"

\* C29: a loop stops only on cancellation; a cycle in which a call failed
\* returns to the select, and from there a waiting tick starts another cycle
\* unless the context is cancelled.
C29_FailuresKeepLoopsRunning ==
  /\ [](\A l \in Loops : loopPc[l] = "stopped" => cancelled)
  /\ \A l \in Loops :
       [](InCycle(l) /\ Errors(l) # {} => <>(loopPc[l] = "select"))
  /\ \A l \in Loops :
       [](loopPc[l] = "select" /\ Errors(l) # {} /\ tickReady[l]
          => <>(cancelled \/ InCycle(l)))

\* After a poll cycle with a failed item fetch and a failed ComputeAll and a
\* sweep with a failed deletion, both loops are in their next cycle.
C29_Witness ==
  /\ ~cancelled
  /\ loopPc["poller"] = "top" /\ cycles["poller"] = 2
  /\ {"item", "compute"} \subseteq logged["poller"]
  /\ loopPc["cleaner"] = "query" /\ cycles["cleaner"] = 2
  /\ "delete" \in logged["cleaner"]

\* computePeriod returns in this step.
Returns == rc.pc # "idle" /\ rc'.idx # rc.idx

\* C24: what a reader of a period sees changes only in the commit step of
\* that period's computePeriod, and then from the complete previous row set
\* to the complete new one (one row per listed story); a computePeriod that
\* fails at any statement leaves every period's rows as they were.
C24_ReplacementAtomic ==
  [][/\ \A p \in Range(Periods) :
          ReadRankings(p)' # ReadRankings(p) =>
            /\ rc.pc = "commit" /\ p = Periods[rc.idx]
            /\ ReadRankings(p)' = NewRows(rc.list, rc.now)
            /\ rc'.result = "committed"
     /\ (Returns /\ rc'.result # "committed" => rankings' = rankings)
    ]_vars

\* In the middle of a replacement (rows deleted, one of two inserted in the
\* transaction) a reader sees the previous, non-empty row set.
C24_Witness ==
  /\ rc.pc = "insert" /\ rc.k = 2 /\ Len(rc.list) = 2
  /\ ReadRankings(Periods[rc.idx]) # {}
  /\ \A r \in ReadRankings(Periods[rc.idx]) : r.computed_at < rc.now
  /\ Cardinality(rc.tx) = 1

\* C25 as stated: whenever a computePeriod call returns, the rows of its
\* period are the rows of that call: one per listed story, with its now.
C25_RowsOfLastCall ==
  [][Returns /\ rc.pc # "list" =>
       rankings'[Periods[rc.idx]] = NewRows(rc.list, rc.now)]_vars

\* C25: the rows of a period are those of the last computePeriod call for it
\* that committed: the call lists exactly the stories whose time lies in its
\* window, a commit makes the period's rows one row per listed story with
\* the call's now, nothing else changes them, and so the rows of a period
\* never carry two computed_at values or two rows of one story.
C25_RowsOfLastCommittedCall ==
  /\ [](\A p \in Range(Periods) : \A r1, r2 \in rankings[p] :
          /\ r1.computed_at = r2.computed_at
          /\ (r1.story_id = r2.story_id => r1 = r2))
  /\ [][/\ (rc.pc = "list" /\ rc'.pc = "begin" =>
             LET w == Window(Periods[rc.idx], rc.now) IN
             /\ Range(rc'.list) =
                  {id \in RankIDs : storyTime[id] # NoTime
                                    /\ w.from <= storyTime[id] /\ storyTime[id] < w.to}
             /\ Len(rc'.list) = Cardinality(Range(rc'.list)))
        /\ \A p \in Range(Periods) :
             rankings'[p] # rankings[p] =>
               /\ Returns /\ rc'.result = "committed" /\ p = Periods[rc.idx]
        /\ (Returns /\ rc'.result = "committed" =>
              rankings'[Periods[rc.idx]] = NewRows(rc.list, rc.now))
       ]_vars

\* The latest ComputeAll failed at "week", whose rows are still those of an
\* earlier call, while it replaced the rows of "day".
C25_Witness ==
  /\ rc.pc = "idle" /\ rc.result \notin {"none", "committed"}
  /\ rankings["week"] # {}
  /\ \A r \in rankings["week"] : r.computed_at < rc.now
  /\ \E r \in rankings["day"] : r.computed_at = rc.now

\* Two decayed scores of one raw score, the second story being older.
DecayedPair(x, y) ==
  /\ scored[x].done /\ scored[y].done
  /\ ~scored[x].useRawScore /\ ~scored[y].useRawScore
  /\ scored[x].rawScore = scored[y].rawScore
  /\ scored[x].age < scored[y].age

\* C26 as stated: for every raw score the decayed score of the older story is
\* strictly smaller, and the "yesterday" score is the raw score.
C26_DecayStrictForEveryScore ==
  /\ \A x, y \in Slots :
       DecayedPair(x, y) => ScoreLess(scored[y].score, scored[x].score)
  /\ \A x \in Slots :
       scored[x].done /\ scored[x].useRawScore =>
         ScoreEq(scored[x].score, [num |-> scored[x].rawScore, cube |-> Cube(HourSecs)])

\* C26: the decayed score of the older story is strictly smaller for a raw
\* score above 1, equal (both 0) for raw score 1 and strictly larger (both
\* negative) for raw score 0; the "yesterday" score is the raw score.
C26_DecayStrictAboveOne ==
  /\ \A x, y \in Slots :
       DecayedPair(x, y) =>
         /\ scored[x].rawScore > 1 => ScoreLess(scored[y].score, scored[x].score)
         /\ scored[x].rawScore = 1 =>
              /\ ScoreEq(scored[y].score, scored[x].score)
              /\ scored[x].score.num = 0
         /\ scored[x].rawScore < 1 =>
              /\ ScoreLess(scored[x].score, scored[y].score)
              /\ scored[y].score.num < 0
  /\ \A x \in Slots :
       scored[x].done /\ scored[x].useRawScore =>
         ScoreEq(scored[x].score, [num |-> scored[x].rawScore, cube |-> Cube(HourSecs)])

\* Two stories with raw score 3, one second apart in age, have been scored.
C26_Witness ==
  /\ DecayedPair("a", "b") /\ scored["a"].rawScore = MaxRawScore
  /\ scored["b"].age = scored["a"].age + 1
  /\ ScoreLess(scored["b"].score, scored["a"].score)

\* C30: the list the TopList holds when a Page call takes the read lock is a
\* list some Set call published in full (or the initial empty one), and the
\* call returns ids and total of exactly that list: the slice
\* [(page-1)*pageSize, min(page*pageSize, total)), or no ids with the true
\* total when the offset is at or past the end.
C30_PageOfOnePublishedList ==
  \A r \in Readers :
    /\ pageCall[r].pc # "idle" => pageCall[r].held \in UpstreamLists \cup {<<>>}
    /\ pageCall[r].pc = "returned" =>
         LET L == pageCall[r].held
             offset == (pageCall[r].page - 1) * pageCall[r].pageSize
             last == IF pageCall[r].page * pageCall[r].pageSize < Len(L)
                       THEN pageCall[r].page * pageCall[r].pageSize ELSE Len(L)
         IN /\ [ids |-> pageCall[r].ids, total |-> pageCall[r].total]
                 = TopListPage(L, pageCall[r].page, pageCall[r].pageSize)
            /\ pageCall[r].total = Len(L)
            /\ pageCall[r].ids = IF offset >= Len(L) THEN <<>>
                           ELSE [j \in 1..(last - offset) |-> L[offset + j]]

\* A page past the end of a non-empty list was read (no ids, the true total)
\* and the list has been replaced since, while another reader got a full page.
C30_Witness ==
  \E r \in Readers :
    /\ pageCall[r].pc = "returned" /\ pageCall[r].held # <<>>
    /\ pageCall[r].ids = <<>> /\ pageCall[r].total = Len(pageCall[r].held)
    /\ topList # pageCall[r].held
    /\ \E q \in Readers : pageCall[q].pc = "returned" /\ Len(pageCall[q].ids) = MaxPageSize

\* C31: the refreshes started for one story are at least RateLimitWindow
\* apart (also when the sweep removed the story's entry in between or the
\* requests were served by concurrent handlers), and every request answers
\* 202 and starts one refresh or answers 429 and starts none.
C31_AcceptedWindowApart ==
  /\ [](\A id \in RefreshIDs : \A a, b \in 1..Len(started[id]) :
         a < b => started[id][b] - started[id][a] >= RateLimitWindow)
  /\ [][\A h \in Handlers :
          /\ (rq'[h].status = 429 /\ rq[h].pc = "locked" /\ rq'[h].pc = "idle")
               => /\ started' = started
                  /\ \E t \in Range(started[rq[h].id]) :
                       rq[h].now - t < RateLimitWindow
          /\ (rq[h].pc = "set" /\ rq'[h].pc = "idle")
               => /\ rq'[h].status = 202
                  /\ started' = [started EXCEPT
                                   ![rq[h].id] = Append(@, rq[h].now)]]_vars

\* One story was refreshed twice, the entry of the other was swept in
\* between, and a handler was turned away with 429.
C31_Witness ==
  \E id, other \in RefreshIDs, h \in Handlers :
    /\ Len(started[id]) >= 2
    /\ started[other] # <<>> /\ ~HasEntry(lastFetch, other)
    /\ rq[h].status = 429 /\ rq[h].pc = "idle"

\* C32: the committed rank of a stored story changes only in the commit of
\* the Poller's SwapRanks transaction (the row's deletion aside); the upserts
\* of the Poller's fetches and of on-demand fetches keep the rank of a stored
\* story, and a story they insert has rank NULL.
C32_RankChangedOnlyBySwap ==
  [][/\ \A id \in stories \cap stories' :
          rank'[id] # rank[id] =>
            pollPc = "swap_commit" /\ pollPc' = "compute" /\ rank' = txRank
     /\ \A id \in stories' \ stories : rank'[id] = NoRank
     /\ (stories' # stories /\ stories \subseteq stories') =>
          \A id \in stories : rank'[id] = rank[id]]_vars

\* The second cycle has fetched the head of its list, a story that kept the
\* rank the first cycle's swap gave it, and a story inserted since is unranked.
C32_Witness ==
  /\ pollPc \in {"eager", "lazy"} /\ i >= 1 /\ nextID > 1
  /\ updatedIDs # <<>> /\ updatedIDs[1] = topIDs[1]
  /\ topIDs[1] \in stories /\ rank[topIDs[1]] > 1
  /\ \E id \in stories : rank[id] = NoRank

\* C39: a cycle that saw the cancellation in one of its fetch loops (it left
\* the loop before the end of its list) commits no rank swap and publishes
\* no event afterwards.
C39_CancelledCycleExitsCleanly ==
  [][(cancelled /\ i < Len(topIDs) /\ pollPc \notin {"idle", "eager", "lazy"})
       => /\ ~(pollPc = "swap_commit" /\ pollPc' = "compute")
          /\ nextID' = nextID /\ pollPc' # "sending"]_vars

\* C36: the permits in the channel are those of the outstanding requests, so
\* none is held when no request is in flight; a call leaves acquire either
\* with a permit, taken while the pool was not full, or with its context done
\* and then without a permit and without a request; and the return of a
\* request takes exactly its own permit out.
C36_PermitsMatchRequests ==
  /\ [](held = Holders(clPc))
  /\ [][\A g \in Requesters :
          /\ (clPc[g] = "acquire" /\ clPc'[g] # "acquire") =>
               \/ /\ clPc'[g] = "request" /\ Cardinality(held) < PoolSize
                  /\ held' = held \cup {g}
               \/ /\ clPc'[g] = "idle" /\ g \in ctxDone /\ held' = held
          /\ (clPc[g] = "request" /\ clPc'[g] # "request") =>
               g \in held /\ held' = held \ {g}]_vars

\* Every permit is out and two callers wait in acquire, the context of one
\* of them done.
C36_Witness ==
  /\ Cardinality(held) = PoolSize
  /\ \E g \in Requesters : clPc[g] = "acquire" /\ g \in ctxDone
  /\ \E g \in Requesters : clPc[g] = "acquire" /\ g \notin ctxDone

\* C40: a goroutine that waits in acquire holds no permit, the comment walk
\* calls GetItems again only when no goroutine of its batch before holds
\* one, and every call waiting in acquire gets its permit or sees its context
\* done.
C40_NoPermitDeadlock ==
  /\ [](\A g \in Requesters : clPc[g] = "acquire" => g \notin held)
  /\ [][walkCalls' > walkCalls =>
          \A g \in held : clOp[g] # "GetItems"]_vars
  /\ \A g \in Requesters :
       (clPc[g] = "acquire") ~> (g \in held \/ g \in ctxDone)

\* The walk's second batch waits in acquire while other callers hold every
\* permit.
C40_Witness ==
  /\ walkCalls >= 2
  /\ Cardinality(held) = PoolSize
  /\ \A g \in held : clOp[g] \in {"TopStories", "GetItem"}
  /\ Cardinality({g \in WalkBatch : clPc[g] = "acquire"}) >= 2

C37_DeleteCascades ==
  /\ [](\A id \in ArtIDs : Referenced(id) => id \in artStories)
  /\ [](lastDelete.result # "error" =>
          lastDelete.result \in {"none", "deleted"})
  /\ [][lastDelete' # lastDelete /\ lastDelete'.result = "deleted" =>
          /\ lastDelete'.id \notin artStories'
          /\ articles'[lastDelete'.id] = "none"
          /\ \A t \in ChildTables : lastDelete'.id \notin childRows'[t]]_vars

\* Steps in which one unit of a cycle fails: an item fetch, a deletion, a
\* computePeriod call.
FetchFailed ==
  /\ loopPc["poller"] \in {"eager", "lazy"}
  /\ pollI' = pollI + 1 /\ pollOk' = pollOk

DeleteFailed ==
  /\ loopPc["cleaner"] = "delete" /\ sweepLeft > 0 /\ ~cancelled
  /\ calls'["cleaner"] = calls["cleaner"] /\ sweepLeft' # sweepLeft

PeriodFailed(j) ==
  /\ loopPc["poller"] = ComputePcs[j]
  /\ loopPc'["poller"] # ComputePcs[j]
  /\ calls'["poller"] = calls["poller"]

\* C35: a failure stays with its unit.  A failed item fetch leaves poll at
\* the next ID of the list, a failed deletion leaves the sweep at the next
\* candidate, a failed computePeriod leaves ComputeAll at the next period;
\* the loops are left only at the end of their list or on cancellation; and
\* after a failure in the cycle the next fetch, deletion or period
\* computation can succeed.
C35_FailuresScopedToUnit ==
  /\ [][/\ FetchFailed =>
            (loopPc'["poller"] = LoopAt(pollN, pollI + 1) /\ pollN' = pollN)
        /\ DeleteFailed =>
            (loopPc'["cleaner"] = "delete" /\ sweepLeft' = sweepLeft - 1)
        /\ \A j \in 1..Len(ComputePcs) :
             PeriodFailed(j) => loopPc'["poller"] = AfterPeriod(j)
        /\ (loopPc["poller"] \in {"eager", "lazy"}
              /\ loopPc'["poller"] \notin {"eager", "lazy"})
             => (pollI' = pollN \/ cancelled)
        /\ (loopPc["cleaner"] = "delete" /\ loopPc'["cleaner"] # "delete")
             => (sweepLeft = 0 \/ cancelled)
       ]_vars
  /\ [](~cancelled /\ "item" \in logged["poller"]
          /\ loopPc["poller"] \in {"eager", "lazy"}
        => ENABLED ((RunEager \/ RunLazy) /\ pollOk' = pollOk + 1))
  /\ [](~cancelled /\ "delete" \in logged["cleaner"]
          /\ loopPc["cleaner"] = "delete" /\ sweepLeft > 0
        => ENABLED (RunDelete /\ calls'["cleaner"] = calls["cleaner"] + 1))
  /\ [](~cancelled /\ "compute" \in logged["poller"]
          /\ loopPc["poller"] \in {ComputePcs[2], ComputePcs[3]}
        => ENABLED (RunComputeAll /\ calls'["poller"] = calls["poller"] + 1))

\* A cycle over two IDs in which one fetch failed and one succeeded has
\* reached its publish with a period computed after another one failed,
\* while the sweep has gone through its two candidates, one deletion failed
\* and one done.
C35_Witness ==
  /\ ~cancelled
  /\ loopPc["poller"] = "publish" /\ pollN = 2 /\ pollI = 2 /\ pollOk = 1
  /\ {"item", "compute"} \subseteq logged["poller"]
  /\ lastCall["poller"] = "compute"
  /\ loopPc["cleaner"] = "delete" /\ sweepLeft = 0
  /\ "delete" \in logged["cleaner"] /\ calls["cleaner"] = 1

\* C38: a connection that was replayed the events after its Last-Event-ID L
\* and has not subscribed yet has been written every event published so far
\* with an ID above L, so that nothing is missing when it subscribes.
C38_NothingLostAtSeam ==
  \A c \in Conns :
    connPc[c] = "replayed" /\ connReplay[c].has /\ connReplay[c].ok =>
      \A e \in 1..(nextID - 1) :
        e > connReplay[c].lastID => e \in Range(connReplay[c].events)

====
